---- MODULE Spec2Model ----
(***************************************************************************)
(* Push-based ingestion of Google Health Connect exports:                  *)
(*   GoogleHealthWorkouts.process_payload  (strategy, workouts.py)         *)
(*   HealthConnectHandler.normalize        (format handler)                *)
(*   get_unified_workout_type_by_id        (taxonomy lookup)               *)
(*                                                                         *)
(* Encoding of Python/JSON values.  A JSON value is a record               *)
(* [k |-> kind, v |-> number] with kind one of "missing" (key absent),      *)
(* "null", "int", "str" (a non-numeric string), "numstr" (a string holding  *)
(* a number), "list", "dict".  A datetime is [aware, t]: t in seconds,      *)
(* aware = it carries a tzinfo.  Decimal | None is [k |-> "dec"/"none", v]. *)
(* A call that may raise returns a record whose field exc is "" when it    *)
(* returned normally and the exception class otherwise.                    *)
(***************************************************************************)
EXTENDS Integers, Sequences, FiniteSets, TLC

VARIABLES
    pc,               \* position of the process_payload call: idle/saving/returned/raised
    call,             \* arguments of the current call and the clock it reads
    normalized_data,  \* the list normalize returned (records are stamped in place)
    idx,              \* 1-based position of the for loop over normalized_data
    forwarded,        \* pairs handed to _save_workout in this call, in order
    save_outcomes,    \* what _save_workout did with each of them
    err,              \* the exception that escaped the call
    normalize_calls,  \* number of handler.normalize invocations in this call
    next_uuid,        \* uuid4 source: the next fresh value
    issued,           \* correlation ids returned by earlier normalize calls
    ncalls,           \* number of process_payload calls made so far
    agg,              \* last call of a function studied on its own: [fn, of, arg, out]
    tables,           \* the module-level lookup dicts of the taxonomy, as they are now
    invocations,      \* calls made on the factory and on the pull operations, with outcomes
    response,         \* what the import endpoint answered: [status, workouts_imported]
    inflight,         \* normalize calls running side by side on one handler, per caller
    handler_state     \* what is stored on the shared HealthConnectHandler instance

vars == <<pc, call, normalized_data, idx, forwarded, save_outcomes, err,
          normalize_calls, next_uuid, issued, ncalls, agg, tables, invocations, response,
          inflight, handler_state>>

(***************************************************************************)
(* Bounds of the model.                                                    *)
(***************************************************************************)
MaxSessions == 2
MaxCalls == 2
MaxRecords == 2
MaxSamples == 1

(***************************************************************************)
(* Unified taxonomy: constants/workout_types/google_health.py              *)
(***************************************************************************)
GOOGLE_HEALTH_WORKOUT_TYPE_MAPPINGS == <<
    <<79, "EXERCISE_TYPE_RUNNING", "RUNNING">>,
    <<80, "EXERCISE_TYPE_RUNNING_TREADMILL", "TREADMILL">>,
    <<90, "EXERCISE_TYPE_WALKING", "WALKING">>,
    <<36, "EXERCISE_TYPE_HIKING", "HIKING">>,
    <<8, "EXERCISE_TYPE_BIKING", "CYCLING">>,
    <<9, "EXERCISE_TYPE_BIKING_STATIONARY", "INDOOR_CYCLING">>,
    <<82, "EXERCISE_TYPE_SWIMMING_POOL", "POOL_SWIMMING">>,
    <<83, "EXERCISE_TYPE_SWIMMING_OPEN_WATER", "OPEN_WATER_SWIMMING">>,
    <<5, "EXERCISE_TYPE_BACK_EXTENSION", "STRENGTH_TRAINING">>,
    <<10, "EXERCISE_TYPE_CALISTHENICS", "STRENGTH_TRAINING">>,
    <<13, "EXERCISE_TYPE_CRUNCH", "STRENGTH_TRAINING">>,
    <<25, "EXERCISE_TYPE_ELLIPTICAL", "ELLIPTICAL">>,
    <<26, "EXERCISE_TYPE_EXERCISE_CLASS", "CARDIO_TRAINING">>,
    <<28, "EXERCISE_TYPE_FRISBEE_DISC", "OTHER">>,
    <<32, "EXERCISE_TYPE_GUIDED_BREATHING", "STRETCHING">>,
    <<33, "EXERCISE_TYPE_GYMNASTICS", "FITNESS_EQUIPMENT">>,
    <<37, "EXERCISE_TYPE_HIGH_INTENSITY_INTERVAL_TRAINING", "CARDIO_TRAINING">>,
    <<45, "EXERCISE_TYPE_JUMP_ROPE", "CARDIO_TRAINING">>,
    <<55, "EXERCISE_TYPE_PILATES", "PILATES">>,
    <<56, "EXERCISE_TYPE_PLANK", "STRENGTH_TRAINING">>,
    <<74, "EXERCISE_TYPE_ROCK_CLIMBING", "ROCK_CLIMBING">>,
    <<75, "EXERCISE_TYPE_ROLLER_SKATING", "INLINE_SKATING">>,
    <<78, "EXERCISE_TYPE_ROWING_MACHINE", "ROWING_MACHINE">>,
    <<84, "EXERCISE_TYPE_STAIR_CLIMBING", "STAIR_CLIMBING">>,
    <<85, "EXERCISE_TYPE_STAIR_CLIMBING_MACHINE", "STAIR_CLIMBING">>,
    <<86, "EXERCISE_TYPE_STRENGTH_TRAINING", "STRENGTH_TRAINING">>,
    <<87, "EXERCISE_TYPE_STRETCHING", "STRETCHING">>,
    <<91, "EXERCISE_TYPE_WEIGHTLIFTING", "STRENGTH_TRAINING">>,
    <<92, "EXERCISE_TYPE_WHEELCHAIR", "OTHER">>,
    <<93, "EXERCISE_TYPE_YOGA", "YOGA">>,
    <<17, "EXERCISE_TYPE_DOWNHILL_SKIING", "ALPINE_SKIING">>,
    <<18, "EXERCISE_TYPE_CROSS_COUNTRY_SKIING", "CROSS_COUNTRY_SKIING">>,
    <<38, "EXERCISE_TYPE_ICE_HOCKEY", "HOCKEY">>,
    <<39, "EXERCISE_TYPE_ICE_SKATING", "ICE_SKATING">>,
    <<81, "EXERCISE_TYPE_SNOWBOARDING", "SNOWBOARDING">>,
    <<89, "EXERCISE_TYPE_SNOWSHOEING", "SNOWSHOEING">>,
    <<46, "EXERCISE_TYPE_KAYAKING", "KAYAKING">>,
    <<47, "EXERCISE_TYPE_KITESURFING", "KITESURFING">>,
    <<53, "EXERCISE_TYPE_PARAGLIDING", "OTHER">>,
    <<54, "EXERCISE_TYPE_PADDLING", "PADDLING">>,
    <<76, "EXERCISE_TYPE_ROWING", "ROWING">>,
    <<77, "EXERCISE_TYPE_SAILING", "SAILING">>,
    <<80, "EXERCISE_TYPE_SCUBA_DIVING", "DIVING">>,
    <<88, "EXERCISE_TYPE_SURFING", "SURFING">>,
    <<91, "EXERCISE_TYPE_WATER_POLO", "OTHER">>,
    <<92, "EXERCISE_TYPE_WINDSURFING", "WINDSURFING">>,
    <<3, "EXERCISE_TYPE_AMERICAN_FOOTBALL", "AMERICAN_FOOTBALL">>,
    <<4, "EXERCISE_TYPE_AUSTRALIAN_FOOTBALL", "FOOTBALL">>,
    <<6, "EXERCISE_TYPE_BADMINTON", "BADMINTON">>,
    <<7, "EXERCISE_TYPE_BASEBALL", "BASEBALL">>,
    <<11, "EXERCISE_TYPE_BASKETBALL", "BASKETBALL">>,
    <<14, "EXERCISE_TYPE_CRICKET", "OTHER">>,
    <<27, "EXERCISE_TYPE_FENCING", "OTHER">>,
    <<31, "EXERCISE_TYPE_HANDBALL", "HANDBALL">>,
    <<40, "EXERCISE_TYPE_LACROSSE", "OTHER">>,
    <<73, "EXERCISE_TYPE_RUGBY", "RUGBY">>,
    <<79, "EXERCISE_TYPE_SOCCER", "SOCCER">>,
    <<80, "EXERCISE_TYPE_SOFTBALL", "BASEBALL">>,
    <<88, "EXERCISE_TYPE_VOLLEYBALL", "VOLLEYBALL">>,
    <<57, "EXERCISE_TYPE_RACQUETBALL", "OTHER">>,
    <<84, "EXERCISE_TYPE_SQUASH", "SQUASH">>,
    <<85, "EXERCISE_TYPE_TABLE_TENNIS", "TABLE_TENNIS">>,
    <<86, "EXERCISE_TYPE_TENNIS", "TENNIS">>,
    <<58, "EXERCISE_TYPE_PICKLEBALL", "PICKLEBALL">>,
    <<12, "EXERCISE_TYPE_BOXING", "BOXING">>,
    <<48, "EXERCISE_TYPE_MARTIAL_ARTS", "MARTIAL_ARTS">>,
    <<93, "EXERCISE_TYPE_WRESTLING", "MARTIAL_ARTS">>,
    <<15, "EXERCISE_TYPE_DANCING", "DANCE">>,
    <<1, "EXERCISE_TYPE_ALPINE_SKIING", "ALPINE_SKIING">>,
    <<2, "EXERCISE_TYPE_ARCHERY", "OTHER">>,
    <<16, "EXERCISE_TYPE_GOLF", "GOLF">>,
    <<29, "EXERCISE_TYPE_GARDENING", "OTHER">>,
    <<34, "EXERCISE_TYPE_HORSEBACK_RIDING", "HORSEBACK_RIDING">>,
    <<41, "EXERCISE_TYPE_MARTIAL_ARTS", "MARTIAL_ARTS">>,
    <<50, "EXERCISE_TYPE_PADDLEBOARDING", "STAND_UP_PADDLEBOARDING">>,
    <<59, "EXERCISE_TYPE_SKATING", "ICE_SKATING">>,
    <<60, "EXERCISE_TYPE_SKATEBOARDING", "OTHER">>,
    <<0, "EXERCISE_TYPE_OTHER_WORKOUT", "OTHER">>
>>

\* A dict comprehension over the triples: a later triple with the same key
\* overwrites an earlier one.  LastIndex is the position that survives.
\* faulty variant: the first triple with the code survives
FirstIndexOfCode(code) ==
    LET hits == {i \in 1..Len(GOOGLE_HEALTH_WORKOUT_TYPE_MAPPINGS) :
                    GOOGLE_HEALTH_WORKOUT_TYPE_MAPPINGS[i][1] = code}
    IN  IF hits = {} THEN 0 ELSE CHOOSE i \in hits : \A j \in hits : i <= j

LastIndexOfCode(code) ==
    LET hits == {i \in 1..Len(GOOGLE_HEALTH_WORKOUT_TYPE_MAPPINGS) :
                    GOOGLE_HEALTH_WORKOUT_TYPE_MAPPINGS[i][1] = code}
    IN  IF hits = {} THEN 0 ELSE CHOOSE i \in hits : \A j \in hits : j <= i

GOOGLE_HEALTH_ID_TO_UNIFIED ==
    LET codes == {GOOGLE_HEALTH_WORKOUT_TYPE_MAPPINGS[i][1] :
                      i \in 1..Len(GOOGLE_HEALTH_WORKOUT_TYPE_MAPPINGS)}
    IN  [c \in codes |-> GOOGLE_HEALTH_WORKOUT_TYPE_MAPPINGS[LastIndexOfCode(c)][3]]

LastIndexOfName(name) ==
    LET hits == {i \in 1..Len(GOOGLE_HEALTH_WORKOUT_TYPE_MAPPINGS) :
                    GOOGLE_HEALTH_WORKOUT_TYPE_MAPPINGS[i][2] = name}
    IN  IF hits = {} THEN 0 ELSE CHOOSE i \in hits : \A j \in hits : j <= i

GOOGLE_HEALTH_NAME_TO_UNIFIED ==
    LET names == {GOOGLE_HEALTH_WORKOUT_TYPE_MAPPINGS[i][2] :
                      i \in 1..Len(GOOGLE_HEALTH_WORKOUT_TYPE_MAPPINGS)}
    IN  [n \in names |-> GOOGLE_HEALTH_WORKOUT_TYPE_MAPPINGS[LastIndexOfName(n)][3]]

GOOGLE_HEALTH_ID_TO_NAME ==
    LET codes == {GOOGLE_HEALTH_WORKOUT_TYPE_MAPPINGS[i][1] :
                      i \in 1..Len(GOOGLE_HEALTH_WORKOUT_TYPE_MAPPINGS)}
    IN  [c \in codes |-> GOOGLE_HEALTH_WORKOUT_TYPE_MAPPINGS[LastIndexOfCode(c)][2]]

\* the three dicts as the import of the module leaves them
module_tables ==
    [GOOGLE_HEALTH_ID_TO_UNIFIED |-> GOOGLE_HEALTH_ID_TO_UNIFIED,
     GOOGLE_HEALTH_NAME_TO_UNIFIED |-> GOOGLE_HEALTH_NAME_TO_UNIFIED,
     GOOGLE_HEALTH_ID_TO_NAME |-> GOOGLE_HEALTH_ID_TO_NAME]

\* faulty variant: a key that is not there is stored with the default
mapping_get_inserting(d, key, default) ==
    [val |-> IF key \in DOMAIN d THEN d[key] ELSE default,
     dict |-> IF key \in DOMAIN d THEN d
              ELSE [x \in DOMAIN d \cup {key} |-> IF x = key THEN default ELSE d[x]]]

\* d.get(key, default) for a key of the dict's key type: the value returned,
\* and the dict as the call leaves it
mapping_get(d, key, default) ==
    [val |-> IF key \in DOMAIN d THEN d[key] ELSE default, dict |-> d]

\* exercise_type_id is a JSON value.  dict.get hashes its key: a list or a
\* dict is unhashable (TypeError); a string or None is hashable and is simply
\* not a key of the table.
get_unified_workout_type_by_id(exercise_type_id) ==
    IF exercise_type_id.k \in {"list", "dict"}
    THEN [exc |-> "TypeError", val |-> "OTHER"]
    ELSE IF exercise_type_id.k = "int"
         THEN [exc |-> "",
               val |-> mapping_get(tables.GOOGLE_HEALTH_ID_TO_UNIFIED,
                                   exercise_type_id.v, "OTHER").val]
         ELSE [exc |-> "", val |-> "OTHER"]

\* exercise_type_name is [k, name]: name is the string when k = "str"
get_unified_workout_type_by_name(exercise_type_name) ==
    IF exercise_type_name.k \in {"list", "dict"}
    THEN [exc |-> "TypeError", val |-> "OTHER"]
    ELSE IF exercise_type_name.k = "str"
         THEN [exc |-> "",
               val |-> mapping_get(tables.GOOGLE_HEALTH_NAME_TO_UNIFIED,
                                   exercise_type_name.name, "OTHER").val]
         ELSE [exc |-> "", val |-> "OTHER"]

get_exercise_name(exercise_type_id) ==
    IF exercise_type_id.k \in {"list", "dict"}
    THEN [exc |-> "TypeError", val |-> "Unknown"]
    ELSE IF exercise_type_id.k = "int"
         THEN [exc |-> "",
               val |-> mapping_get(tables.GOOGLE_HEALTH_ID_TO_NAME,
                                   exercise_type_id.v, "Unknown").val]
         ELSE [exc |-> "", val |-> "Unknown"]

(***************************************************************************)
(* Small helpers for the encoding.                                         *)
(***************************************************************************)
J(kind, n) == [k |-> kind, v |-> n]
Missing == J("missing", 0)
PyNone == [k |-> "none", v |-> 0]
Dec(n) == [k |-> "dec", v |-> n]
NoDatetime == [aware |-> FALSE, t |-> 0]

\* dict.get(key, default) on a key whose stored value is val
dict_get(val, default) == IF val.k = "missing" THEN default ELSE val

\* bool(x) of a JSON value, as "if not x" evaluates it
Truthy(x) ==
    CASE x.k \in {"missing", "null", "empty"} -> FALSE
      [] x.k = "int" -> x.v # 0
      [] OTHER -> TRUE

(***************************************************************************)
(* HealthConnectHandler._parse_datetime                                    *)
(* Timestamp strings: k = "empty" (""), "iso_z" (ends with Z),              *)
(* "iso_offset" (+hh:mm), "iso_naive" (no offset), "garbage" (a string      *)
(* fromisoformat rejects); v is the instant.  datetime.now() is naive.      *)
(***************************************************************************)
_parse_datetime(date_str, now) ==
    IF ~Truthy(date_str)
    THEN [exc |-> "", val |-> [aware |-> FALSE, t |-> now]]
    ELSE CASE date_str.k \in {"iso_z", "iso_offset"} ->
                  [exc |-> "", val |-> [aware |-> TRUE, t |-> date_str.v]]
           [] date_str.k = "iso_naive" ->
                  [exc |-> "", val |-> [aware |-> FALSE, t |-> date_str.v]]
           [] date_str.k = "garbage" ->      \* ValueError, caught: fallback
                  [exc |-> "", val |-> [aware |-> FALSE, t |-> now]]
           [] OTHER ->                       \* not a str: no .endswith
                  [exc |-> "AttributeError", val |-> NoDatetime]

\* faulty variant: a negative difference is clamped to zero
datetime_sub_clamped(end_time, start_time) ==
    IF end_time.aware # start_time.aware
    THEN [exc |-> "TypeError", val |-> 0]
    ELSE [exc |-> "", val |-> IF end_time.t < start_time.t THEN 0
                              ELSE end_time.t - start_time.t]

\* end_time - start_time: Python refuses to subtract a naive and an aware
\* datetime; int(timedelta.total_seconds()) of whole seconds is the difference
datetime_sub(end_time, start_time) ==
    IF end_time.aware # start_time.aware
    THEN [exc |-> "TypeError", val |-> 0]
    ELSE [exc |-> "", val |-> end_time.t - start_time.t]

(***************************************************************************)
(* Sub-record arrays of a session.                                         *)
(* An array field is [k, items]: k = "missing" (key absent), "null",        *)
(* "list", "str" (a non-empty string) or "int" (a non-zero number).         *)
(* A distance/calories/elevation entry is [k, inner, val]: k the kind of    *)
(* the entry itself, inner the kind of its "distance"/"energy"/"elevation"  *)
(* member, val the JSON value of "inMeters"/"inKilocalories".               *)
(* A heart-rate entry is [k, samples], samples an array field whose items   *)
(* are [k, bpm], bpm the JSON value of "beatsPerMinute".                    *)
(* The loops have no side effect before they raise, so a loop is modelled   *)
(* by the results of its iterations: it raises what its first failing       *)
(* iteration raises.                                                        *)
(***************************************************************************)
NoItems == [k |-> "missing", items |-> <<>>]

Ok(v) == [exc |-> "", val |-> v]
Raise(e, dflt) == [exc |-> e, val |-> dflt]

\* the exception of the first statement that raises, "" if none does
FirstExc(excs) ==
    IF \A i \in 1..Len(excs) : excs[i] = "" THEN ""
    ELSE excs[CHOOSE i \in 1..Len(excs) :
                  excs[i] # "" /\ \A j \in 1..(i - 1) : excs[j] = ""]

RECURSIVE SeqSum(_)
SeqSum(s) == IF s = <<>> THEN 0 ELSE Head(s) + SeqSum(Tail(s))
SeqMin(s) == CHOOSE x \in {s[i] : i \in 1..Len(s)} : \A j \in 1..Len(s) : x <= s[j]
SeqMax(s) == CHOOSE x \in {s[i] : i \in 1..Len(s)} : \A j \in 1..Len(s) : x >= s[j]
RECURSIVE Concat(_)
Concat(ss) == IF ss = <<>> THEN <<>> ELSE Head(ss) \o Concat(Tail(ss))

\* "if not records" on session.get(key, [])
ArrTruthy(a) ==
    CASE a.k \in {"missing", "null"} -> FALSE
      [] a.k = "list" -> a.items # <<>>
      [] OTHER -> TRUE

\* "for record in records": a list gives its items; a str gives its
\* characters, and the first record.get raises AttributeError; a number is
\* not iterable
iterate(a) ==
    CASE a.k = "list" -> [exc |-> "", items |-> a.items]
      [] a.k = "str" -> [exc |-> "AttributeError", items |-> <<>>]
      [] OTHER -> [exc |-> "TypeError", items |-> <<>>]

\* record.get(outer, {}).get(inner, 0)
record_value(entry) ==
    IF entry.k # "dict" THEN Raise("AttributeError", Missing)
    ELSE IF entry.inner = "missing" THEN Ok(J("int", 0))
    ELSE IF entry.inner # "dict" THEN Raise("AttributeError", Missing)
    ELSE Ok(dict_get(entry.val, J("int", 0)))

\* Decimal(str(x)) of the value record_value produced
to_decimal(g) ==
    IF g.exc # "" THEN Raise(g.exc, 0)
    ELSE IF g.val.k \in {"int", "numstr"} THEN Ok(g.val.v)
    ELSE Raise("InvalidOperation", 0)

\* the results of the iterations, folded: first exception, or the sum
sum_results(rs) ==
    IF FirstExc([i \in 1..Len(rs) |-> rs[i].exc]) # ""
    THEN Raise(FirstExc([i \in 1..Len(rs) |-> rs[i].exc]), 0)
    ELSE Ok(SeqSum([i \in 1..Len(rs) |-> rs[i].val]))

\* total += Decimal(str(record.get(..., {}).get(..., 0))) for each record
sum_records(it) ==
    IF it.exc # "" THEN Raise(it.exc, 0)
    ELSE sum_results([i \in 1..Len(it.items) |-> to_decimal(record_value(it.items[i]))])

\* faulty variant: the total is returned whatever it is
positive_or_none_always(r) ==
    IF r.exc # "" THEN Raise(r.exc, PyNone) ELSE Ok(Dec(r.val))

\* "return total if total > 0 else None"
positive_or_none(r) ==
    IF r.exc # "" THEN Raise(r.exc, PyNone)
    ELSE Ok(IF r.val > 0 THEN Dec(r.val) ELSE PyNone)

_extract_distance(distance_records) ==
    IF ~ArrTruthy(distance_records) THEN Ok(PyNone)
    ELSE positive_or_none(sum_records(iterate(distance_records)))

_extract_calories(calories_records) ==
    IF ~ArrTruthy(calories_records) THEN Ok(PyNone)
    ELSE positive_or_none(sum_records(iterate(calories_records)))

\* faulty variant: every value is added to the gain, whatever its sign
gain_of_all(g) ==
    IF g.exc # "" THEN Raise(g.exc, 0)
    ELSE IF g.val.k # "int" THEN Raise("TypeError", 0)
    ELSE Ok(g.val.v)

\* "if elevation > 0: total_gain += Decimal(str(elevation))": the comparison
\* comes first, and only a number can be compared with 0
gain_of(g) ==
    IF g.exc # "" THEN Raise(g.exc, 0)
    ELSE IF g.val.k # "int" THEN Raise("TypeError", 0)
    ELSE Ok(IF g.val.v > 0 THEN g.val.v ELSE 0)

sum_gain(it) ==
    IF it.exc # "" THEN Raise(it.exc, 0)
    ELSE sum_results([i \in 1..Len(it.items) |-> gain_of(record_value(it.items[i]))])

\* the result is the dict {"gain": total_gain} or {}: val is its "gain"
\* entry, PyNone for {}
_extract_elevation(elevation_records) ==
    IF ~ArrTruthy(elevation_records) THEN Ok(PyNone)
    ELSE positive_or_none(sum_gain(iterate(elevation_records)))

\* bpm = sample.get("beatsPerMinute", 0); "if bpm > 0" needs a number
bpm_of(sample) ==
    IF sample.k # "dict" THEN Raise("AttributeError", 0)
    ELSE IF dict_get(sample.bpm, J("int", 0)).k # "int" THEN Raise("TypeError", 0)
    ELSE Ok(dict_get(sample.bpm, J("int", 0)).v)

\* first exception of the iterations, or the sequence of their values
collect(rs) ==
    IF FirstExc([i \in 1..Len(rs) |-> rs[i].exc]) # ""
    THEN Raise(FirstExc([i \in 1..Len(rs) |-> rs[i].exc]), <<>>)
    ELSE Ok([i \in 1..Len(rs) |-> rs[i].val])

\* "for sample in samples" over record.get("samples", [])
samples_bpm(samples) ==
    CASE samples.k = "missing" -> Ok(<<>>)
      [] samples.k = "list" ->
            collect([i \in 1..Len(samples.items) |-> bpm_of(samples.items[i])])
      [] samples.k = "str" -> Raise("AttributeError", <<>>)
      [] OTHER -> Raise("TypeError", <<>>)

record_bpm(record) ==
    IF record.k # "dict" THEN Raise("AttributeError", <<>>)
    ELSE samples_bpm(record.samples)

\* faulty variant: every reading is kept
keep_positive_all(r) ==
    IF r.exc # "" THEN Raise(r.exc, <<>>) ELSE Ok(Concat(r.val))

\* all_bpm: the positive readings of all samples of all records, in order
keep_positive(r) ==
    IF r.exc # "" THEN Raise(r.exc, <<>>)
    ELSE Ok(SelectSeq(Concat(r.val), LAMBDA bpm : bpm > 0))

all_bpm_of(it) ==
    IF it.exc # "" THEN Raise(it.exc, <<>>)
    ELSE keep_positive(collect([i \in 1..Len(it.items) |-> record_bpm(it.items[i])]))

\* {} is present = FALSE; avg is the quotient sum/n, kept as the pair
NoHeartRate == [present |-> FALSE, min |-> 0, max |-> 0, sum |-> 0, n |-> 0]

heart_rate_stats(r) ==
    IF r.exc # "" THEN Raise(r.exc, NoHeartRate)
    ELSE IF r.val = <<>> THEN Ok(NoHeartRate)
    ELSE Ok([present |-> TRUE, min |-> SeqMin(r.val), max |-> SeqMax(r.val),
             sum |-> SeqSum(r.val), n |-> Len(r.val)])

_extract_heart_rate(hr_records) ==
    IF ~ArrTruthy(hr_records) THEN Ok(NoHeartRate)
    ELSE heart_rate_stats(all_bpm_of(iterate(hr_records)))

\* faulty variant: a total that is missing is stored as 0
_build_metrics_zero(heart_rate_data, distance_meters, calories, elevation_data) ==
    [heart_rate_avg |-> IF heart_rate_data.present
                        THEN [k |-> "dec", num |-> heart_rate_data.sum, den |-> heart_rate_data.n]
                        ELSE [k |-> "none", num |-> 0, den |-> 1],
     heart_rate_max |-> IF heart_rate_data.present THEN Dec(heart_rate_data.max) ELSE PyNone,
     heart_rate_min |-> IF heart_rate_data.present THEN Dec(heart_rate_data.min) ELSE PyNone,
     distance_total |-> IF distance_meters = PyNone THEN Dec(0) ELSE distance_meters,
     calories_total |-> IF calories = PyNone THEN Dec(0) ELSE calories,
     elevation_gain |-> elevation_data,
     elevation_loss |-> PyNone,
     temperature |-> PyNone,
     humidity |-> PyNone]

\* metrics: a key that is not set is PyNone (EventRecordDetailCreate's default)
_build_metrics(heart_rate_data, distance_meters, calories, elevation_data) ==
    [heart_rate_avg |-> IF heart_rate_data.present
                        THEN [k |-> "dec", num |-> heart_rate_data.sum, den |-> heart_rate_data.n]
                        ELSE [k |-> "none", num |-> 0, den |-> 1],
     heart_rate_max |-> IF heart_rate_data.present THEN Dec(heart_rate_data.max) ELSE PyNone,
     heart_rate_min |-> IF heart_rate_data.present THEN Dec(heart_rate_data.min) ELSE PyNone,
     distance_total |-> distance_meters,
     calories_total |-> calories,
     elevation_gain |-> elevation_data,
     elevation_loss |-> PyNone,
     temperature |-> PyNone,
     humidity |-> PyNone]

(***************************************************************************)
(* HealthConnectHandler._parse_exercise_session and normalize              *)
(* A session is [k, id, exerciseType, startTime, endTime, metadata,         *)
(* distanceRecords, caloriesRecords, heartRateRecords, elevationRecords];   *)
(* k is the kind of the entry itself ("dict" for a JSON object).            *)
(* metadata is [k, dataOrigin, device], the strings "<missing>" standing    *)
(* for an absent key and "<None>" for Python's None.                        *)
(***************************************************************************)
UNSET == "<None>"

NoRecord ==
    [id |-> 0, category |-> "", type |-> "", source_name |-> "", device_id |-> UNSET,
     duration_seconds |-> 0, start_datetime |-> NoDatetime, end_datetime |-> NoDatetime,
     provider_id |-> UNSET, user_id |-> UNSET]

NoDetail ==
    [record_id |-> 0, metrics |-> _build_metrics(NoHeartRate, PyNone, PyNone, PyNone)]

Failed(e, uuid_used) ==
    [exc |-> e, record |-> NoRecord, detail |-> NoDetail, uuid_used |-> uuid_used]

\* faulty variant: an id source that repeats itself
uuid4_repeating(counter) == 1

\* uuid4(): a value no earlier call returned
uuid4(counter) == counter

\* metadata = session.get("metadata", {}); metadata.get(...) raises on None
\* or on a str
metadata_get(metadata, key_value, default) ==
    IF metadata.k = "missing" \/ key_value = "<missing>" THEN default ELSE key_value

\* the statements of _parse_exercise_session, given what the calls it makes
\* returned; the first one that raised ends it.  uuid4() is called after the
\* extractions and before the type lookup.
parse_statements(session, uuid, start_time, end_time, distance_meters, calories, heart_rate_data, elevation_data, unified_type) ==
    IF FirstExc(<<start_time.exc, end_time.exc,
                  datetime_sub(end_time.val, start_time.val).exc,
                  IF session.metadata.k \in {"missing", "dict"} THEN "" ELSE "AttributeError",
                  distance_meters.exc, calories.exc, heart_rate_data.exc,
                  elevation_data.exc>>) # ""
    THEN Failed(FirstExc(<<start_time.exc, end_time.exc,
                  datetime_sub(end_time.val, start_time.val).exc,
                  IF session.metadata.k \in {"missing", "dict"} THEN "" ELSE "AttributeError",
                  distance_meters.exc, calories.exc, heart_rate_data.exc,
                  elevation_data.exc>>), FALSE)
    ELSE IF unified_type.exc # "" THEN Failed(unified_type.exc, TRUE)
    ELSE [exc |-> "",
          record |-> [id |-> uuid4(uuid),
                      category |-> "workout",
                      type |-> unified_type.val,
                      source_name |-> metadata_get(session.metadata,
                                          session.metadata.dataOrigin, "Google Health Connect"),
                      device_id |-> IF metadata_get(session.metadata,
                                           session.metadata.device, UNSET) = ""
                                    THEN UNSET
                                    ELSE metadata_get(session.metadata,
                                             session.metadata.device, UNSET),
                      duration_seconds |-> datetime_sub(end_time.val, start_time.val).val,
                      start_datetime |-> start_time.val,
                      end_datetime |-> end_time.val,
                      provider_id |-> IF session.id = "<missing>" THEN UNSET ELSE session.id,
                      user_id |-> UNSET],
          detail |-> [record_id |-> uuid4(uuid),
                      metrics |-> _build_metrics(heart_rate_data.val, distance_meters.val,
                                                 calories.val, elevation_data.val)],
          uuid_used |-> TRUE]

\* returns [exc, record, detail, uuid_used]; uuid_used tells whether uuid4()
\* was called before the function returned or raised
_parse_exercise_session(session, now, uuid) ==
    IF session.k # "dict"      \* session.get on a str/int/None
    THEN Failed("AttributeError", FALSE)
    ELSE parse_statements(session, uuid,
             _parse_datetime(dict_get(session.startTime, J("empty", 0)), now),
             _parse_datetime(dict_get(session.endTime, J("empty", 0)), now),
             _extract_distance(session.distanceRecords),
             _extract_calories(session.caloriesRecords),
             _extract_heart_rate(session.heartRateRecords),
             _extract_elevation(session.elevationRecords),
             get_unified_workout_type_by_id(dict_get(session.exerciseType, J("int", 0))))

\* the for loop of normalize.  A pair is [record, detail, src]; src is
\* bookkeeping of the model, the position of the session the pair came from.
\* The except clause reads session.get("id", "unknown"), which itself raises
\* AttributeError when the entry is not a dict: that exception leaves normalize.
RECURSIVE normalize_loop(_, _, _, _, _)
RECURSIVE normalize_iteration(_, _, _, _, _, _)
normalize_iteration(sessions, i, now, uuid, workouts, r) ==
    IF r.exc = ""
    THEN normalize_loop(sessions, i + 1, now, uuid + 1,
             Append(workouts, [record |-> r.record, detail |-> r.detail, src |-> i]))
    ELSE IF sessions[i].k # "dict"
    THEN [exc |-> "AttributeError", arg |-> "get", workouts |-> <<>>,
          uuid |-> IF r.uuid_used THEN uuid + 1 ELSE uuid]
    ELSE normalize_loop(sessions, i + 1, now,
                        IF r.uuid_used THEN uuid + 1 ELSE uuid, workouts)

normalize_loop(sessions, i, now, uuid, workouts) ==
    IF i > Len(sessions)
    THEN [exc |-> "", arg |-> "", workouts |-> workouts, uuid |-> uuid]
    ELSE normalize_iteration(sessions, i, now, uuid, workouts,
                             _parse_exercise_session(sessions[i], now, uuid))

\* faulty variant: no shape check, anything else is treated as an empty list
normalize_any_shape(data, now, uuid) ==
    normalize_loop(data.sessions, 1, now, uuid, <<>>)

\* data is [k, sessions]: k = "dict" (one session, sessions = <<it>>), "list",
\* or the kind of any other JSON value
normalize(data, now, uuid) ==
    IF data.k \in {"dict", "list"}
    THEN normalize_loop(data.sessions, 1, now, uuid, <<>>)
    ELSE [exc |-> "ValueError", arg |-> data.k, workouts |-> <<>>, uuid |-> uuid]

(***************************************************************************)
(* GoogleHealthWorkouts.process_payload                                    *)
(***************************************************************************)
\* self.handlers, set in __init__ and never written again
handlers == [health_connect |-> "HealthConnectHandler"]

\* faulty variant: an unknown source type falls back to the only handler
handlers_get_fallback(source_type) == handlers["health_connect"]

\* self.handlers.get(source_type)
handlers_get(source_type) ==
    IF source_type \in DOMAIN handlers THEN handlers[source_type] ELSE UNSET

NoErr == [type |-> "", arg |-> "", from |-> ""]

\* line 95 and what follows from it: r is what handler.normalize(payload) did
after_normalize(r) ==
    IF r.exc # ""
    THEN [pc |-> "raised", err |-> [type |-> r.exc, arg |-> r.arg, from |-> "normalize"],
          normalized_data |-> <<>>, normalize_calls |-> 1, uuid |-> r.uuid]
    ELSE [pc |-> "saving", err |-> NoErr,
          normalized_data |-> r.workouts, normalize_calls |-> 1, uuid |-> r.uuid]

\* lines 91-95: the handler lookup and handler.normalize(payload).
\* Returns the state the call is in when the for loop is about to start, or
\* the exception that ended it.
process_payload_enter(payload, source_type, now, uuid) ==
    IF handlers_get(source_type) = UNSET
    THEN [pc |-> "raised",
          err |-> [type |-> "ValueError", arg |-> source_type, from |-> "process_payload"],
          normalized_data |-> <<>>, normalize_calls |-> 0, uuid |-> uuid]
    ELSE after_normalize(normalize(payload, now, uuid))

\* faulty variant: the loop walks the list from its end
loop_item_reversed(data, i) == data[Len(data) + 1 - i]

\* the pair of the i-th iteration of "for record, detail in normalized_data"
loop_item(data, i) == data[i]

\* faulty variant: the record is forwarded as the handler built it
set_user_id_forgotten(pair, user_id) == pair

\* record.user_id = user_id
set_user_id(pair, user_id) == [pair EXCEPT !.record.user_id = user_id]

\* faulty variant: a failed save is logged and the loop goes on
after_save_suppressed(i, outcome) ==
    [idx |-> i + 1, pc |-> "saving", err |-> NoErr]

\* what follows self._save_workout(db, record, detail) in the loop: outcome
\* is "ok", or the exception _save_workout raised, which nothing catches
after_save(i, outcome) ==
    [idx |-> IF outcome = "ok" THEN i + 1 ELSE i,
     pc |-> IF outcome = "ok" THEN "saving" ELSE "raised",
     err |-> IF outcome = "ok" THEN NoErr
             ELSE [type |-> outcome, arg |-> "", from |-> "_save_workout"]]

(***************************************************************************)
(* Inputs.                                                                 *)
(***************************************************************************)
Users == {"user-1", "user-2"}
SourceTypes == {"health_connect", "healthkit"}
Clock == {9000, 9060}
\* what the persistence collaborator may do with one pair
SaveOutcomes == {"ok", "IntegrityError"}

Entry(val) == [k |-> "dict", inner |-> "dict", val |-> val]
Arr(items) == [k |-> "list", items |-> items]
Sample(bpm) == [k |-> "dict", bpm |-> bpm]
HrRecord(samples) == [k |-> "dict", samples |-> Arr(samples)]
NoMetadata == [k |-> "missing", dataOrigin |-> "<missing>", device |-> "<missing>"]

Session(id, exerciseType, startTime, endTime) ==
    [k |-> "dict", id |-> id, exerciseType |-> exerciseType,
     startTime |-> startTime, endTime |-> endTime, metadata |-> NoMetadata,
     distanceRecords |-> NoItems, caloriesRecords |-> NoItems,
     heartRateRecords |-> NoItems, elevationRecords |-> NoItems]

\* the running session of the test suite (times in seconds from its start)
RunningSession ==
    [Session("health_connect_session_001", J("int", 79), J("iso_z", 0), J("iso_z", 2700))
       EXCEPT !.metadata = [k |-> "dict", dataOrigin |-> "com.google.android.apps.fitness",
                            device |-> "Pixel 7 Pro"],
              !.distanceRecords = Arr(<<Entry(J("int", 5280))>>),
              !.caloriesRecords = Arr(<<Entry(J("int", 342))>>),
              !.heartRateRecords = Arr(<<HrRecord(<<Sample(J("int", 125)), Sample(J("int", 155))>>)>>),
              !.elevationRecords = Arr(<<Entry(J("int", 125))>>)]

DictSessions ==
    { RunningSession,
      \* only a type and timestamps; timestamps without offset
      Session("<missing>", J("int", 8), J("iso_naive", 0), J("iso_naive", 5400)),
      \* explicit offsets; the end lies before the start
      Session("s-073", J("int", 73), J("iso_offset", 600), J("iso_offset", 0)),
      Session("s-077", J("int", 77), J("iso_z", 0), J("iso_z", 60)),
      \* no exerciseType, no timestamps
      Session("s-none", Missing, Missing, Missing),
      \* empty start, end with a UTC marker
      Session("s-empty-start", J("int", 999), J("empty", 0), J("iso_z", 60)),
      \* unparsable start, end without offset
      Session("s-garbage", J("int", 8), J("garbage", 0), J("iso_naive", 60)),
      \* a number where the timestamp string belongs
      Session("s-int-time", J("int", 79), J("int", 17), J("iso_z", 60)),
      \* a null distance value
      [Session("s-null-dist", J("int", 8), J("iso_z", 0), J("iso_z", 60))
         EXCEPT !.distanceRecords = Arr(<<Entry(J("null", 0))>>)] }

\* an array element that is not a JSON object
NonDictSession(kind) == [Session("<missing>", Missing, Missing, Missing) EXCEPT !.k = kind]

Sessions == DictSessions \cup {NonDictSession("str")}

SeqsUpTo(S, n) == UNION {[1..m -> S] : m \in 0..n}

Payloads ==
    {[k |-> "dict", sessions |-> <<s>>] : s \in DictSessions}
    \cup {[k |-> "list", sessions |-> q] : q \in SeqsUpTo(Sessions, MaxSessions)}
    \cup {[k |-> kind, sessions |-> <<>>] : kind \in {"str", "int", "null"}}

NoCall == [user_id |-> UNSET, payload |-> [k |-> "null", sessions |-> <<>>],
           source_type |-> "", now |-> 0]

\* inputs of the extraction functions
EntryValues ==
    {J("int", 0 - 2), J("int", 0), J("int", 2), J("int", 3), Missing, J("null", 0),
     J("str", 0)}

AdditiveEntries ==
    {Entry(v) : v \in EntryValues}
    \cup {[k |-> "dict", inner |-> "missing", val |-> Missing],
          [k |-> "dict", inner |-> "null", val |-> Missing],
          [k |-> "str", inner |-> "missing", val |-> Missing]}

AdditiveArrays ==
    {NoItems, [k |-> "null", items |-> <<>>], [k |-> "str", items |-> <<>>]}
    \cup {Arr(q) : q \in SeqsUpTo(AdditiveEntries, MaxRecords)}

Samples ==
    {Sample(J("int", 0 - 1)), Sample(J("int", 60)), Sample(J("int", 90)),
     Sample(Missing), Sample(J("null", 0)), [k |-> "str", bpm |-> Missing]}

HrEntries ==
    {HrRecord(q) : q \in SeqsUpTo(Samples, MaxSamples)}
    \cup {[k |-> "dict", samples |-> NoItems],
          [k |-> "dict", samples |-> [k |-> "null", items |-> <<>>]],
          [k |-> "str", samples |-> NoItems]}

HrArrays ==
    {NoItems, [k |-> "null", items |-> <<>>]}
    \cup {Arr(q) : q \in SeqsUpTo(HrEntries, MaxRecords)}

\* fn = "" while the function named by of has not been applied to arg
NoAgg == [fn |-> "", of |-> "", arg |-> NoItems, out |-> Ok(PyNone)]

\* the callers that use the one handler at the same time
Callers == {"a", "b"}

\* a caller that is not in a call; otherwise pc is "loop" (in the for loop of
\* normalize, about to take sessions[i]), "returned" or "raised", and
\* workouts is the call's local list
NoFlight ==
    [pc |-> "idle", data |-> [k |-> "list", sessions |-> <<>>], now |-> 0, i |-> 1,
     workouts |-> <<>>, exc |-> ""]

\* no request has been answered
NoResponse == [status |-> 0, workouts_imported |-> 0]

(***************************************************************************)
(* The state machine of process_payload calls on one strategy object.      *)
(***************************************************************************)
Init ==
    /\ pc = "idle"
    /\ call = NoCall
    /\ normalized_data = <<>>
    /\ idx = 1
    /\ forwarded = <<>>
    /\ save_outcomes = <<>>
    /\ err = NoErr
    /\ normalize_calls = 0
    /\ next_uuid = 1
    /\ issued = {}
    /\ ncalls = 0
    /\ agg = NoAgg
    /\ tables = module_tables
    /\ invocations = <<>>
    /\ response = NoResponse
    /\ inflight = [c \in Callers |-> NoFlight]
    /\ handler_state = <<>>

EnterCall(user_id, payload, source_type, now, r) ==
    /\ call' = [user_id |-> user_id, payload |-> payload,
                source_type |-> source_type, now |-> now]
    /\ pc' = r.pc
    /\ err' = r.err
    /\ normalized_data' = r.normalized_data
    /\ normalize_calls' = r.normalize_calls
    /\ next_uuid' = r.uuid

\* the call is made: handler lookup and normalize
ProcessPayload ==
    /\ pc = "idle"
    /\ ncalls < MaxCalls
    /\ \E user_id \in Users, payload \in Payloads, source_type \in SourceTypes, now \in Clock :
         EnterCall(user_id, payload, source_type, now,
                   process_payload_enter(payload, source_type, now, next_uuid))
    /\ idx' = 1
    /\ forwarded' = <<>>
    /\ save_outcomes' = <<>>
    /\ ncalls' = ncalls + 1
    /\ UNCHANGED <<issued, agg, tables, invocations, response,
                   inflight, handler_state>>

Iteration(pair, r) ==
    /\ normalized_data' = [normalized_data EXCEPT ![idx] = pair]
    /\ forwarded' = Append(forwarded, pair)
    /\ idx' = r.idx
    /\ pc' = r.pc
    /\ err' = r.err

\* one iteration of the for loop: stamp the record (in place, the list holds
\* the same object), hand the pair to _save_workout
SaveWorkout ==
    /\ pc = "saving"
    /\ idx <= Len(normalized_data)
    /\ \E outcome \in SaveOutcomes :
         /\ Iteration(set_user_id(loop_item(normalized_data, idx), call.user_id),
                      after_save(idx, outcome))
         /\ save_outcomes' = Append(save_outcomes, outcome)
    /\ UNCHANGED <<call, normalize_calls, next_uuid, issued, ncalls, agg,
                   tables, invocations, response,
                   inflight, handler_state>>

\* the for loop is exhausted: process_payload returns None
Return ==
    /\ pc = "saving"
    /\ idx > Len(normalized_data)
    /\ pc' = "returned"
    /\ UNCHANGED <<call, normalized_data, idx, forwarded, save_outcomes, err,
                   normalize_calls, next_uuid, issued, ncalls, agg,
                   tables, invocations, response,
                   inflight, handler_state>>

\* the caller has the result or the exception; the locals of the call are
\* gone, the uuids it produced stay produced
CallEnds ==
    /\ pc \in {"returned", "raised"}
    /\ pc' = "idle"
    /\ issued' = issued \cup {normalized_data[i].record.id : i \in 1..Len(normalized_data)}
    /\ call' = NoCall
    /\ normalized_data' = <<>>
    /\ idx' = 1
    /\ forwarded' = <<>>
    /\ save_outcomes' = <<>>
    /\ err' = NoErr
    /\ normalize_calls' = 0
    /\ UNCHANGED <<next_uuid, ncalls, agg, tables, invocations, response,
                   inflight, handler_state>>

Next == ProcessPayload \/ SaveWorkout \/ Return \/ CallEnds

Spec == Init /\ [][Next]_vars

(***************************************************************************)
(* The extraction functions on their own: the input is drawn at the start,  *)
(* one action applies each function.                                        *)
(***************************************************************************)
InitAgg ==
    /\ pc = "idle"
    /\ call = NoCall
    /\ normalized_data = <<>>
    /\ idx = 1
    /\ forwarded = <<>>
    /\ save_outcomes = <<>>
    /\ err = NoErr
    /\ normalize_calls = 0
    /\ next_uuid = 1
    /\ issued = {}
    /\ ncalls = 0
    /\ tables = module_tables
    /\ invocations = <<>>
    /\ response = NoResponse
    /\ inflight = [c \in Callers |-> NoFlight]
    /\ handler_state = <<>>
    /\ agg \in {[fn |-> "", of |-> "additive", arg |-> a, out |-> Ok(PyNone)] :
                    a \in AdditiveArrays}
           \cup {[fn |-> "", of |-> "heart_rate", arg |-> a, out |-> Ok(PyNone)] :
                    a \in HrArrays}

Frame == UNCHANGED <<pc, call, normalized_data, idx, forwarded, save_outcomes, err,
                     normalize_calls, next_uuid, issued, ncalls,
                     tables, invocations, response,
                   inflight, handler_state>>

ExtractDistance ==
    /\ agg.fn = "" /\ agg.of = "additive"
    /\ agg' = [agg EXCEPT !.fn = "_extract_distance", !.out = _extract_distance(agg.arg)]
    /\ Frame

ExtractCalories ==
    /\ agg.fn = "" /\ agg.of = "additive"
    /\ agg' = [agg EXCEPT !.fn = "_extract_calories", !.out = _extract_calories(agg.arg)]
    /\ Frame

ExtractElevation ==
    /\ agg.fn = "" /\ agg.of = "additive"
    /\ agg' = [agg EXCEPT !.fn = "_extract_elevation", !.out = _extract_elevation(agg.arg)]
    /\ Frame

ExtractHeartRate ==
    /\ agg.fn = "" /\ agg.of = "heart_rate"
    /\ agg' = [agg EXCEPT !.fn = "_extract_heart_rate", !.out = _extract_heart_rate(agg.arg)]
    /\ Frame

NextAgg == ExtractDistance \/ ExtractCalories \/ ExtractElevation \/ ExtractHeartRate

SpecAgg == InitAgg /\ [][NextAgg]_vars

(***************************************************************************)
(* HealthKitHandler (apple/handlers/healthkit.py).                         *)
(* A Workout element is a record of its attributes.  A text attribute is    *)
(* its string, "<missing>" when the attribute is absent.  A numeric         *)
(* attribute is [k, v]: k = "missing", "empty", "num" (float() and          *)
(* Decimal() accept it; v is the number in tenths) or "garbage".  A date    *)
(* attribute is [k, v]: k = "missing", "empty", "hk_offset" (date, time and *)
(* +hhmm), "hk_naive" (date and time), "iso_naive", "iso_offset" or         *)
(* "garbage"; v is the instant.  A Decimal is the quotient [k, num, den];   *)
(* Decimal division rounds it to 28 digits, which the quotient leaves out.  *)
(***************************************************************************)
Rat(n, d) == [k |-> "dec", num |-> n, den |-> d]
NoRat == [k |-> "none", num |-> 0, den |-> 1]

\* "if not value" on a string attribute or None
AttrTruthy(value) == value.k \notin {"missing", "empty"}

\* int(x) of the float x = n / d, d > 0: towards zero
int_of(n, d) == IF n >= 0 THEN n \div d ELSE 0 - ((0 - n) \div d)

\* returns an int; float(value) raising ValueError is caught
_parse_duration(value, unit) ==
    IF ~AttrTruthy(value) THEN Ok(0)
    ELSE IF value.k # "num" THEN Ok(0)
    ELSE CASE unit = "min" -> Ok(int_of(value.v * 60, 10))
           [] unit = "hr" -> Ok(int_of(value.v * 3600, 10))
           [] unit = "s" -> Ok(int_of(value.v, 10))
           [] OTHER -> Ok(int_of(value.v * 60, 10))

\* Decimal(value) raises decimal.InvalidOperation on a string that is not a
\* number; InvalidOperation is an ArithmeticError, and
\* "except (ValueError, TypeError)" does not catch it
_parse_distance(value, unit) ==
    IF ~AttrTruthy(value) THEN Ok(NoRat)
    ELSE IF value.k # "num" THEN Raise("InvalidOperation", NoRat)
    ELSE IF unit \in {"<missing>", ""} THEN Ok(Rat(value.v, 10))
    ELSE CASE unit = "km" -> Ok(Rat(value.v * 1000, 10))
           [] unit = "mi" -> Ok(Rat(value.v * 160934, 1000))
           [] unit = "m" -> Ok(Rat(value.v, 10))
           [] unit = "yd" -> Ok(Rat(value.v * 9144, 100000))
           [] OTHER -> Ok(Rat(value.v, 10))

_parse_energy(value, unit) ==
    IF ~AttrTruthy(value) THEN Ok(NoRat)
    ELSE IF value.k # "num" THEN Raise("InvalidOperation", NoRat)
    ELSE CASE unit \in {"Cal", "kcal"} -> Ok(Rat(value.v, 10))
           [] unit = "kJ" -> Ok(Rat(value.v * 1000, 41840))
           [] OTHER -> Ok(Rat(value.v, 10))

\* strptime with %z, then without, then fromisoformat, whose ValueError
\* nothing catches
HealthKitHandler__parse_datetime(date_str, now) ==
    IF ~AttrTruthy(date_str)
    THEN Ok([aware |-> FALSE, t |-> now])
    ELSE CASE date_str.k \in {"hk_offset", "iso_offset"} ->
                  Ok([aware |-> TRUE, t |-> date_str.v])
           [] date_str.k \in {"hk_naive", "iso_naive"} ->
                  Ok([aware |-> FALSE, t |-> date_str.v])
           [] OTHER -> Raise("ValueError", NoDatetime)

\* the keys _build_metrics reads
HKKeys ==
    {"HKAverageHeartRate", "HKMaximumHeartRate", "HKMinimumHeartRate",
     "HKElevationAscended", "HKElevationDescended",
     "HKWeatherTemperature", "HKWeatherHumidity"}

\* the MetadataEntry children as a record over HKKeys: the value of a key is
\* [k, v] with k = "missing" (no such entry), "empty", "num" or "str" (a
\* string int() and float() reject).  An entry with an empty value is left
\* out; a number is stored as int or float, anything else as the string.
_parse_metadata(entries) ==
    [key \in HKKeys |-> IF entries[key].k = "empty" THEN Missing ELSE entries[key]]

\* Decimal(str(metadata[key])) if key in metadata
metric_of(metadata, key) ==
    IF metadata[key].k = "missing" THEN Ok(NoRat)
    ELSE IF metadata[key].k = "num" THEN Ok(Rat(metadata[key].v, 10))
    ELSE Raise("InvalidOperation", NoRat)

HealthKitHandler__build_metrics(metadata, distance_meters, calories) ==
    IF \E key \in HKKeys : metric_of(metadata, key).exc # ""
    THEN Raise("InvalidOperation", <<>>)
    ELSE Ok([heart_rate_avg |-> metric_of(metadata, "HKAverageHeartRate").val,
             heart_rate_max |-> metric_of(metadata, "HKMaximumHeartRate").val,
             heart_rate_min |-> metric_of(metadata, "HKMinimumHeartRate").val,
             distance_total |-> distance_meters,
             calories_total |-> calories,
             elevation_gain |-> metric_of(metadata, "HKElevationAscended").val,
             elevation_loss |-> metric_of(metadata, "HKElevationDescended").val,
             temperature |-> metric_of(metadata, "HKWeatherTemperature").val,
             humidity |-> metric_of(metadata, "HKWeatherHumidity").val])

\* app.constants.workout_types.apple.get_unified_workout_type
get_unified_workout_type(workout_type) ==
    CASE workout_type = "HKWorkoutActivityTypeRunning" -> "RUNNING"
      [] workout_type = "HKWorkoutActivityTypeCycling" -> "CYCLING"
      [] OTHER -> "OTHER"

attr(value, default) == IF value = "<missing>" THEN default ELSE value

\* the statements of _parse_workout_element, given what the calls it makes
\* returned; the first one that raised ends it
workout_statements(workout_elem, uuid, start_date, end_date, duration_seconds, distance_meters, calories, metrics) ==
    IF FirstExc(<<start_date.exc, end_date.exc, duration_seconds.exc,
                  distance_meters.exc, calories.exc, metrics.exc>>) # ""
    THEN Failed(FirstExc(<<start_date.exc, end_date.exc, duration_seconds.exc,
                           distance_meters.exc, calories.exc, metrics.exc>>), FALSE)
    ELSE [exc |-> "",
          record |-> [id |-> uuid4(uuid),
                      category |-> "workout",
                      type |-> get_unified_workout_type(
                                   attr(workout_elem.workoutActivityType,
                                        "HKWorkoutActivityTypeOther")),
                      source_name |-> attr(workout_elem.sourceName, "Apple Health"),
                      device_id |-> IF attr(workout_elem.device, "") = "" THEN UNSET
                                    ELSE workout_elem.device,
                      duration_seconds |-> duration_seconds.val,
                      start_datetime |-> start_date.val,
                      end_datetime |-> end_date.val,
                      provider_id |-> UNSET,
                      user_id |-> UNSET],
          detail |-> [record_id |-> uuid4(uuid), metrics |-> metrics.val],
          uuid_used |-> TRUE]

\* metrics are built from what the two conversions returned, when they did
metrics_after(metadata, distance_meters, calories) ==
    IF distance_meters.exc # "" \/ calories.exc # "" THEN Ok(<<>>)
    ELSE HealthKitHandler__build_metrics(metadata, distance_meters.val, calories.val)

_parse_workout_element(workout_elem, now, uuid) ==
    workout_statements(workout_elem, uuid,
        HealthKitHandler__parse_datetime(workout_elem.startDate, now),
        HealthKitHandler__parse_datetime(workout_elem.endDate, now),
        _parse_duration(workout_elem.duration, attr(workout_elem.durationUnit, "min")),
        _parse_distance(workout_elem.totalDistance, workout_elem.totalDistanceUnit),
        _parse_energy(workout_elem.totalEnergyBurned,
                      attr(workout_elem.totalEnergyBurnedUnit, "kcal")),
        metrics_after(_parse_metadata(workout_elem.metadata),
            _parse_distance(workout_elem.totalDistance, workout_elem.totalDistanceUnit),
            _parse_energy(workout_elem.totalEnergyBurned,
                          attr(workout_elem.totalEnergyBurnedUnit, "kcal"))))

\* the for loop over root.findall(".//Workout"): an element whose parse
\* raised is reported and left out
RECURSIVE HealthKitHandler_loop(_, _, _, _, _)
HealthKitHandler_iteration(elems, i, now, uuid, workouts, r) ==
    IF r.exc = ""
    THEN HealthKitHandler_loop(elems, i + 1, now, uuid + 1,
             Append(workouts, [record |-> r.record, detail |-> r.detail, src |-> i]))
    ELSE HealthKitHandler_loop(elems, i + 1, now, uuid, workouts)

HealthKitHandler_loop(elems, i, now, uuid, workouts) ==
    IF i > Len(elems)
    THEN [exc |-> "", arg |-> "", workouts |-> workouts, uuid |-> uuid]
    ELSE HealthKitHandler_iteration(elems, i, now, uuid, workouts,
                                    _parse_workout_element(elems[i], now, uuid))

\* data is [k, elems]: k = "str" or "bytes" (XML text, elems the Workout
\* elements it holds), "element", "bad_xml" (text that is not well-formed),
\* or the kind of any other value
HealthKitHandler_normalize(data, now, uuid) ==
    IF data.k \in {"str", "bytes", "element"}
    THEN HealthKitHandler_loop(data.elems, 1, now, uuid, <<>>)
    ELSE IF data.k = "bad_xml"
    THEN [exc |-> "ParseError", arg |-> data.k, workouts |-> <<>>, uuid |-> uuid]
    ELSE [exc |-> "ValueError", arg |-> data.k, workouts |-> <<>>, uuid |-> uuid]

(***************************************************************************)
(* The handlers and the lookups on their own: one input is drawn at the     *)
(* start, one action applies each function to it.                           *)
(***************************************************************************)
TimestampStrings ==
    {Missing, J("empty", 0), J("iso_z", 60), J("iso_offset", 120), J("iso_naive", 180),
     J("garbage", 0)}

ExerciseTypes ==
    {Missing, J("int", 79), J("int", 8), J("int", 999), J("null", 0), J("str", 0),
     J("list", 0)}

\* sessions that differ in their type and timestamps and have no sub-records
TimeSessions ==
    {Session("<missing>", et, st, en) :
        et \in ExerciseTypes, st \in TimestampStrings, en \in TimestampStrings}

MetricArrays ==
    {NoItems, Arr(<<>>), Arr(<<Entry(J("int", 0))>>), Arr(<<Entry(J("int", 3))>>),
     Arr(<<Entry(J("int", 2)), Entry(J("int", 0 - 2))>>), Arr(<<Entry(J("null", 0))>>)}

HeartRateArrays ==
    {NoItems, Arr(<<HrRecord(<<>>)>>), Arr(<<HrRecord(<<Sample(J("int", 60))>>)>>),
     Arr(<<HrRecord(<<Sample(J("int", 0 - 1))>>)>>),
     Arr(<<HrRecord(<<Sample(J("int", 60)), Sample(J("int", 90))>>)>>)}

\* sessions that differ in their sub-records
MetricSessions ==
    {[Session("<missing>", J("int", 79), J("iso_z", 0), J("iso_z", 1800))
        EXCEPT !.distanceRecords = d, !.caloriesRecords = c,
               !.heartRateRecords = h, !.elevationRecords = e] :
        d \in MetricArrays, c \in MetricArrays, h \in HeartRateArrays, e \in MetricArrays}

NumericAttributes ==
    {Missing, J("empty", 0), J("num", 455), J("num", 0), J("num", 0 - 15), J("garbage", 0)}

DateAttributes ==
    {Missing, J("empty", 0), J("hk_offset", 60), J("hk_naive", 120), J("iso_naive", 180),
     J("iso_offset", 240), J("garbage", 0)}

NoEntries == [key \in HKKeys |-> Missing]

Metadatas ==
    {NoEntries,
     [key \in HKKeys |-> J("num", 1400)],
     [NoEntries EXCEPT !["HKAverageHeartRate"] = J("num", 1416)],
     [NoEntries EXCEPT !["HKWeatherHumidity"] = J("empty", 0)],
     [NoEntries EXCEPT !["HKMaximumHeartRate"] = J("str", 0)]}

\* a workout with timestamps only
Workout(startDate, endDate) ==
    [workoutActivityType |-> "HKWorkoutActivityTypeRunning", sourceName |-> "Apple Watch",
     device |-> "<missing>", startDate |-> startDate, endDate |-> endDate,
     duration |-> Missing, durationUnit |-> "<missing>",
     totalDistance |-> Missing, totalDistanceUnit |-> "<missing>",
     totalEnergyBurned |-> Missing, totalEnergyBurnedUnit |-> "<missing>",
     metadata |-> NoEntries]

PlainWorkout == Workout(J("hk_offset", 0), J("hk_offset", 2700))

Workouts ==
    {Workout(s, e) : s \in DateAttributes, e \in DateAttributes}
    \cup {[PlainWorkout EXCEPT !.duration = v, !.durationUnit = u] :
             v \in NumericAttributes, u \in {"<missing>", "min", "hr", "s", "d"}}
    \cup {[PlainWorkout EXCEPT !.totalDistance = v, !.totalDistanceUnit = u] :
             v \in NumericAttributes, u \in {"<missing>", "", "km", "mi", "m", "yd", "ft"}}
    \cup {[PlainWorkout EXCEPT !.totalEnergyBurned = v, !.totalEnergyBurnedUnit = u] :
             v \in NumericAttributes, u \in {"<missing>", "kcal", "Cal", "kJ", "J"}}
    \cup {[PlainWorkout EXCEPT !.totalDistance = d, !.totalEnergyBurned = c, !.duration = v] :
             d \in NumericAttributes, c \in NumericAttributes, v \in NumericAttributes}
    \cup {[PlainWorkout EXCEPT !.metadata = m, !.workoutActivityType = "<missing>"] :
             m \in Metadatas}

TableCodes ==
    {GOOGLE_HEALTH_WORKOUT_TYPE_MAPPINGS[i][1] : i \in 1..Len(GOOGLE_HEALTH_WORKOUT_TYPE_MAPPINGS)}
TableNames ==
    {GOOGLE_HEALTH_WORKOUT_TYPE_MAPPINGS[i][2] : i \in 1..Len(GOOGLE_HEALTH_WORKOUT_TYPE_MAPPINGS)}

Codes ==
    {J("int", c) : c \in (0 - 1)..100} \cup {J("int", 999), J("null", 0), J("str", 0), J("list", 0)}

Names ==
    {[k |-> "str", name |-> n] :
        n \in TableNames \cup {"UNKNOWN", "", "EXERCISE_TYPE_SWIMMING", "Running"}}
    \cup {[k |-> "null", name |-> ""], [k |-> "int", name |-> ""], [k |-> "list", name |-> ""]}

InitHandlers ==
    /\ pc = "idle"
    /\ call = NoCall
    /\ normalized_data = <<>>
    /\ idx = 1
    /\ forwarded = <<>>
    /\ save_outcomes = <<>>
    /\ err = NoErr
    /\ normalize_calls = 0
    /\ next_uuid = 1
    /\ issued = {}
    /\ ncalls = 0
    /\ tables = module_tables
    /\ invocations = <<>>
    /\ response = NoResponse
    /\ inflight = [c \in Callers |-> NoFlight]
    /\ handler_state = <<>>
    /\ agg \in {[fn |-> "", of |-> "session", arg |-> s, out |-> Ok(PyNone)] :
                    s \in TimeSessions \cup MetricSessions}
           \cup {[fn |-> "", of |-> "workout", arg |-> w, out |-> Ok(PyNone)] :
                    w \in Workouts}
           \cup {[fn |-> "", of |-> "code", arg |-> c, out |-> Ok(PyNone)] : c \in Codes}
           \cup {[fn |-> "", of |-> "name", arg |-> n, out |-> Ok(PyNone)] : n \in Names}

FrameCall == UNCHANGED <<pc, call, normalized_data, idx, forwarded, save_outcomes, err,
                         normalize_calls, next_uuid, issued, ncalls, invocations, response,
                   inflight, handler_state>>

\* HealthConnectHandler.normalize on the session as a single JSON object
NormalizeSession ==
    /\ agg.fn = "" /\ agg.of = "session"
    /\ \E now \in Clock :
         agg' = [agg EXCEPT !.fn = "normalize",
                            !.out = normalize([k |-> "dict", sessions |-> <<agg.arg>>], now, 1)]
    /\ FrameCall /\ UNCHANGED tables

\* HealthKitHandler.normalize on an export that holds the one workout
NormalizeExport ==
    /\ agg.fn = "" /\ agg.of = "workout"
    /\ \E now \in Clock :
         agg' = [agg EXCEPT !.fn = "HealthKitHandler.normalize",
                            !.out = HealthKitHandler_normalize(
                                        [k |-> "element", elems |-> <<agg.arg>>], now, 1)]
    /\ FrameCall /\ UNCHANGED tables

ParseDuration ==
    /\ agg.fn = "" /\ agg.of = "workout"
    /\ agg' = [agg EXCEPT !.fn = "_parse_duration",
                          !.out = _parse_duration(agg.arg.duration,
                                                  attr(agg.arg.durationUnit, "min"))]
    /\ FrameCall /\ UNCHANGED tables

ParseDistance ==
    /\ agg.fn = "" /\ agg.of = "workout"
    /\ agg' = [agg EXCEPT !.fn = "_parse_distance",
                          !.out = _parse_distance(agg.arg.totalDistance,
                                                  agg.arg.totalDistanceUnit)]
    /\ FrameCall /\ UNCHANGED tables

ParseEnergy ==
    /\ agg.fn = "" /\ agg.of = "workout"
    /\ agg' = [agg EXCEPT !.fn = "_parse_energy",
                          !.out = _parse_energy(agg.arg.totalEnergyBurned,
                                                attr(agg.arg.totalEnergyBurnedUnit, "kcal"))]
    /\ FrameCall /\ UNCHANGED tables

\* the dict a lookup read, as the lookup leaves it
table_after(table, is_key, key, default) ==
    IF is_key THEN mapping_get(table, key, default).dict ELSE table

LookupById ==
    /\ agg.fn = "" /\ agg.of = "code"
    /\ agg' = [agg EXCEPT !.fn = "get_unified_workout_type_by_id",
                          !.out = get_unified_workout_type_by_id(agg.arg)]
    /\ tables' = [tables EXCEPT !.GOOGLE_HEALTH_ID_TO_UNIFIED =
                                    table_after(@, agg.arg.k = "int", agg.arg.v, "OTHER")]
    /\ FrameCall

LookupByName ==
    /\ agg.fn = "" /\ agg.of = "name"
    /\ agg' = [agg EXCEPT !.fn = "get_unified_workout_type_by_name",
                          !.out = get_unified_workout_type_by_name(agg.arg)]
    /\ tables' = [tables EXCEPT !.GOOGLE_HEALTH_NAME_TO_UNIFIED =
                                    table_after(@, agg.arg.k = "str", agg.arg.name, "OTHER")]
    /\ FrameCall

GetExerciseName ==
    /\ agg.fn = "" /\ agg.of = "code"
    /\ agg' = [agg EXCEPT !.fn = "get_exercise_name", !.out = get_exercise_name(agg.arg)]
    /\ tables' = [tables EXCEPT !.GOOGLE_HEALTH_ID_TO_NAME =
                                    table_after(@, agg.arg.k = "int", agg.arg.v, "Unknown")]
    /\ FrameCall

\* get_unified_workout_type_by_name(get_exercise_name(exercise_type_id))
type_of_exercise_name(name) ==
    IF name.exc # "" THEN name
    ELSE get_unified_workout_type_by_name([k |-> "str", name |-> name.val])

\* the type looked up by the name that the code is looked up to
LookupByNameOfCode ==
    /\ agg.fn = "" /\ agg.of = "code"
    /\ agg' = [agg EXCEPT !.fn = "get_unified_workout_type_by_name(get_exercise_name)",
                          !.out = type_of_exercise_name(get_exercise_name(agg.arg))]
    /\ tables' = [tables EXCEPT
                     !.GOOGLE_HEALTH_ID_TO_NAME =
                         table_after(@, agg.arg.k = "int", agg.arg.v, "Unknown"),
                     !.GOOGLE_HEALTH_NAME_TO_UNIFIED =
                         table_after(@, get_exercise_name(agg.arg).exc = "",
                                     get_exercise_name(agg.arg).val, "OTHER")]
    /\ FrameCall

NextHandlers ==
    \/ NormalizeSession \/ NormalizeExport
    \/ ParseDuration \/ ParseDistance \/ ParseEnergy
    \/ LookupById \/ LookupByName \/ GetExerciseName \/ LookupByNameOfCode

SpecHandlers == InitHandlers /\ [][NextHandlers]_vars

(***************************************************************************)
(* ProviderFactory.get_provider and the pull operations of                  *)
(* GoogleHealthWorkouts.  invocations is the list of the calls made so far, *)
(* each [op, args, out]; out is [exc, arg, val] with val "[]" for an empty  *)
(* list.  None of the operations reads or writes any state.                 *)
(***************************************************************************)
Returns(v) == [exc |-> "", arg |-> "", val |-> v]
Raises(e, a) == [exc |-> e, arg |-> a, val |-> UNSET]

\* faulty variant: a name that is not known gets the Google Health strategy
get_provider_default(provider_name) ==
    CASE provider_name = "apple" -> Returns("AppleStrategy")
      [] provider_name = "garmin" -> Returns("GarminStrategy")
      [] provider_name = "suunto" -> Returns("SuuntoStrategy")
      [] provider_name = "polar" -> Returns("PolarStrategy")
      [] OTHER -> Returns("GoogleHealthStrategy")

get_provider(provider_name) ==
    CASE provider_name = "apple" -> Returns("AppleStrategy")
      [] provider_name = "garmin" -> Returns("GarminStrategy")
      [] provider_name = "google_health" -> Returns("GoogleHealthStrategy")
      [] provider_name = "suunto" -> Returns("SuuntoStrategy")
      [] provider_name = "polar" -> Returns("PolarStrategy")
      [] OTHER -> Raises("ValueError", provider_name)

get_workouts(user_id, start_date, end_date) == Returns("[]")

get_workouts_from_api(user_id) == Returns("[]")

get_workout_detail_from_api(user_id, workout_id) ==
    Raises("NotImplementedError",
           "Google Health Connect does not support API-based workout detail fetching")

load_data(user_id) ==
    Raises("NotImplementedError",
           "Google Health Connect uses process_payload for data ingestion, not load_data")

ProviderNames ==
    {"apple", "garmin", "google_health", "suunto", "polar", "fitbit", "Apple", ""}
WorkoutIds == {"w-1", "w-2"}

Invoke(op, args, out) ==
    /\ invocations' = Append(invocations, [op |-> op, args |-> args, out |-> out])
    /\ UNCHANGED <<pc, call, normalized_data, idx, forwarded, save_outcomes, err,
                   normalize_calls, next_uuid, issued, ncalls, agg, tables, response,
                   inflight, handler_state>>

GetProvider ==
    /\ Len(invocations) < MaxCalls
    /\ \E provider_name \in ProviderNames :
           Invoke("get_provider", <<provider_name>>, get_provider(provider_name))

GetWorkouts ==
    /\ Len(invocations) < MaxCalls
    /\ \E user_id \in Users, start_date \in Clock, end_date \in Clock :
           Invoke("get_workouts", <<user_id, start_date, end_date>>,
                  get_workouts(user_id, start_date, end_date))

GetWorkoutsFromApi ==
    /\ Len(invocations) < MaxCalls
    /\ \E user_id \in Users :
           Invoke("get_workouts_from_api", <<user_id>>, get_workouts_from_api(user_id))

GetWorkoutDetailFromApi ==
    /\ Len(invocations) < MaxCalls
    /\ \E user_id \in Users, workout_id \in WorkoutIds :
           Invoke("get_workout_detail_from_api", <<user_id, workout_id>>,
                  get_workout_detail_from_api(user_id, workout_id))

LoadData ==
    /\ Len(invocations) < MaxCalls
    /\ \E user_id \in Users : Invoke("load_data", <<user_id>>, load_data(user_id))

NextProvider ==
    GetProvider \/ GetWorkouts \/ GetWorkoutsFromApi \/ GetWorkoutDetailFromApi \/ LoadData

SpecProvider == Init /\ [][NextProvider]_vars

(***************************************************************************)
(* The import endpoint (api/routes/v1/import_google_health.py).  The        *)
(* uploaded file is either text json.loads rejects or a decoded payload.    *)
(* pc goes idle -> saving/raised -> returned/raised -> responded -> idle.   *)
(* An exception that leaves the endpoint function is answered by the        *)
(* framework with status 500.                                               *)
(***************************************************************************)
HTTP_201_CREATED == 201
HTTP_400_BAD_REQUEST == 400
HTTP_500_INTERNAL_SERVER_ERROR == 500

InvalidJson == [k |-> "invalid_json", sessions |-> <<>>]
Files == Payloads \cup {InvalidJson}

\* "len(data) if isinstance(data, list) else 1"
workout_count(data) == IF data.k = "list" THEN Len(data.sessions) ELSE 1

\* lines 80-101: json.loads, the factory, process_payload up to its loop
import_enter(data, now, uuid, strategy) ==
    IF data.k = "invalid_json"
    THEN [pc |-> "responded", err |-> NoErr, normalized_data |-> <<>>,
          normalize_calls |-> 0, uuid |-> uuid]
    ELSE IF strategy.exc # ""
    THEN [pc |-> "raised",
          err |-> [type |-> strategy.exc, arg |-> strategy.arg, from |-> "get_provider"],
          normalized_data |-> <<>>, normalize_calls |-> 0, uuid |-> uuid]
    ELSE process_payload_enter(data, "health_connect", now, uuid)

\* the request arrives: the file is read and decoded, the payload processed
ImportRequest ==
    /\ pc = "idle"
    /\ ncalls < MaxCalls
    /\ \E user_id \in Users, file \in Files, now \in Clock :
         /\ EnterCall(user_id, file, "health_connect", now,
                      import_enter(file, now, next_uuid, get_provider("google_health")))
         /\ response' = IF file.k = "invalid_json"
                        THEN [status |-> HTTP_400_BAD_REQUEST, workouts_imported |-> 0]
                        ELSE NoResponse
    /\ idx' = 1
    /\ forwarded' = <<>>
    /\ save_outcomes' = <<>>
    /\ ncalls' = ncalls + 1
    /\ UNCHANGED <<issued, agg, tables, invocations,
                   inflight, handler_state>>

\* lines 103-110 when process_payload returned; the framework's answer when
\* an exception left the function
respond(state, data) ==
    IF state = "returned"
    THEN [status |-> HTTP_201_CREATED, workouts_imported |-> workout_count(data)]
    ELSE [status |-> HTTP_500_INTERNAL_SERVER_ERROR, workouts_imported |-> 0]

Respond ==
    /\ pc \in {"returned", "raised"}
    /\ response' = respond(pc, call.payload)
    /\ pc' = "responded"
    /\ UNCHANGED <<call, normalized_data, idx, forwarded, save_outcomes, err,
                   normalize_calls, next_uuid, issued, ncalls, agg, tables, invocations,
                   inflight, handler_state>>

\* the response is sent; nothing of the request remains but the uuids used
RequestEnds ==
    /\ pc = "responded"
    /\ pc' = "idle"
    /\ issued' = issued \cup {normalized_data[i].record.id : i \in 1..Len(normalized_data)}
    /\ call' = NoCall
    /\ normalized_data' = <<>>
    /\ idx' = 1
    /\ forwarded' = <<>>
    /\ save_outcomes' = <<>>
    /\ err' = NoErr
    /\ normalize_calls' = 0
    /\ response' = NoResponse
    /\ UNCHANGED <<next_uuid, ncalls, agg, tables, invocations,
                   inflight, handler_state>>

NextImport == ImportRequest \/ SaveWorkout \/ Return \/ Respond \/ RequestEnds

SpecImport == Init /\ [][NextImport]_vars

(***************************************************************************)
(* HealthConnectHandler.normalize called by several callers at once on one  *)
(* handler instance.  A step of a caller is one iteration of the for loop;  *)
(* the steps of the callers interleave in any order.  What the callers      *)
(* share is the instance (handler_state), the lookup dicts (tables) and the *)
(* uuid4 source; workouts is a local of each call.                          *)
(***************************************************************************)
ConcurrentSessions ==
    {RunningSession,
     Session("s-none", Missing, Missing, Missing),
     Session("s-int-time", J("int", 79), J("int", 17), J("iso_z", 60)),
     NonDictSession("str")}

ConcurrentPayloads ==
    {[k |-> "dict", sessions |-> <<RunningSession>>], [k |-> "str", sessions |-> <<>>]}
    \cup {[k |-> "list", sessions |-> q] : q \in SeqsUpTo(ConcurrentSessions, MaxSessions)}

\* the calls run at the same time: datetime.now() reads the same instant
ConcurrentClock == {9000}

\* faulty variant: the list is kept on the instance, one list for all calls
workouts_append_shared(workouts, self_state, pair) ==
    [workouts |-> Append(self_state, pair), self_state |-> Append(self_state, pair)]

\* "workouts = []" ... "workouts.append((record, detail))": the list is a
\* local of the call, and nothing is stored on self
workouts_append(workouts, self_state, pair) ==
    [workouts |-> Append(workouts, pair), self_state |-> self_state]

\* one iteration of the for loop, given what _parse_exercise_session did
iteration_after(f, r, appended) ==
    IF r.exc = ""
    THEN [f EXCEPT !.i = f.i + 1, !.workouts = appended.workouts]
    ELSE IF f.data.sessions[f.i].k # "dict"      \* session.get in the except clause
    THEN [f EXCEPT !.pc = "raised", !.exc = "AttributeError", !.workouts = <<>>]
    ELSE [f EXCEPT !.i = f.i + 1]

\* the call starts: the shape check and "workouts = []"
CallNormalize ==
    \E c \in Callers, data \in ConcurrentPayloads, now \in ConcurrentClock :
        /\ inflight[c].pc = "idle"
        /\ inflight' = [inflight EXCEPT ![c] =
                           IF data.k \in {"dict", "list"}
                           THEN [NoFlight EXCEPT !.pc = "loop", !.data = data, !.now = now]
                           ELSE [NoFlight EXCEPT !.pc = "raised", !.data = data,
                                                 !.now = now, !.exc = "ValueError"]]
        /\ UNCHANGED <<pc, call, normalized_data, idx, forwarded, save_outcomes, err,
                       normalize_calls, next_uuid, issued, ncalls, agg, tables,
                       invocations, response, handler_state>>

\* the statements of one iteration, r being the result of the parse
Iterate(c, f, session, r) ==
    /\ inflight' = [inflight EXCEPT ![c] =
                       iteration_after(f, r,
                           workouts_append(f.workouts, handler_state,
                               [record |-> r.record, detail |-> r.detail, src |-> f.i]))]
    /\ handler_state' =
          IF r.exc # "" THEN handler_state
          ELSE workouts_append(f.workouts, handler_state,
                   [record |-> r.record, detail |-> r.detail, src |-> f.i]).self_state
    /\ next_uuid' = IF r.exc = "" \/ r.uuid_used THEN next_uuid + 1 ELSE next_uuid
    /\ tables' = [tables EXCEPT !.GOOGLE_HEALTH_ID_TO_UNIFIED =
                     table_after(@, (r.exc = "" \/ r.uuid_used)
                                    /\ dict_get(session.exerciseType, J("int", 0)).k = "int",
                                 dict_get(session.exerciseType, J("int", 0)).v, "OTHER")]

\* one caller takes the next session of its list
LoopStep ==
    \E c \in Callers :
        /\ inflight[c].pc = "loop"
        /\ inflight[c].i <= Len(inflight[c].data.sessions)
        /\ Iterate(c, inflight[c], inflight[c].data.sessions[inflight[c].i],
                   _parse_exercise_session(inflight[c].data.sessions[inflight[c].i],
                                           inflight[c].now, next_uuid))
        /\ UNCHANGED <<pc, call, normalized_data, idx, forwarded, save_outcomes, err,
                       normalize_calls, issued, ncalls, agg, invocations, response>>

\* "return workouts"
ReturnWorkouts ==
    \E c \in Callers :
        /\ inflight[c].pc = "loop"
        /\ inflight[c].i > Len(inflight[c].data.sessions)
        /\ inflight' = [inflight EXCEPT ![c].pc = "returned"]
        /\ UNCHANGED <<pc, call, normalized_data, idx, forwarded, save_outcomes, err,
                       normalize_calls, next_uuid, issued, ncalls, agg, tables,
                       invocations, response, handler_state>>

NextConcurrent == CallNormalize \/ LoopStep \/ ReturnWorkouts

SpecConcurrent == Init /\ [][NextConcurrent]_vars

(***************************************************************************)
(* Vocabulary of the properties.                                           *)
(***************************************************************************)
GoodTimestamp(ts) == ts.k \in {"iso_z", "iso_offset", "iso_naive"}
\* missing, empty, or a string no ISO parser accepts
BadTimestamp(ts) == ts.k \in {"missing", "empty", "garbage"}
WithOffset(ts) == ts.k \in {"iso_z", "iso_offset"}

WellFormedEntry(e) ==
    /\ e.k = "dict"
    /\ e.inner \in {"dict", "missing"}
    /\ e.val.k \in {"int", "missing"}
WellFormedSample(x) == x.k = "dict" /\ x.bpm.k \in {"int", "missing"}
WellFormedHrEntry(e) ==
    /\ e.k = "dict"
    /\ e.samples.k \in {"list", "missing"}
    /\ \A i \in 1..Len(e.samples.items) : WellFormedSample(e.samples.items[i])
WellFormedArray(a) ==
    /\ a.k \in {"list", "missing"}
    /\ \A i \in 1..Len(a.items) : WellFormedEntry(a.items[i])
WellFormedHrArray(a) ==
    /\ a.k \in {"list", "missing"}
    /\ \A i \in 1..Len(a.items) : WellFormedHrEntry(a.items[i])

\* everything but the two timestamps is present with the right type or absent
WellFormedRest(s) ==
    /\ s.k = "dict"
    /\ s.exerciseType.k \in {"int", "missing"}
    /\ s.metadata.k \in {"dict", "missing"}
    /\ WellFormedArray(s.distanceRecords)
    /\ WellFormedArray(s.caloriesRecords)
    /\ WellFormedArray(s.elevationRecords)
    /\ WellFormedHrArray(s.heartRateRecords)

WellFormed(s) ==
    /\ WellFormedRest(s)
    /\ GoodTimestamp(s.startTime) /\ GoodTimestamp(s.endTime)
    /\ WithOffset(s.startTime) = WithOffset(s.endTime)

\* not a JSON object, or an object with a field of the wrong type
Malformed(s) ==
    \/ s.k # "dict"
    \/ ~WellFormedRest(s)
    \/ s.startTime.k \in {"int", "null"}
    \/ s.endTime.k \in {"int", "null"}

InCall == pc # "idle"
KnownSource == call.source_type = "health_connect"
SessionsOfCall == call.payload.sessions
NormalizeRaised == pc = "raised" /\ err.from = "normalize"
SaveRaised == pc = "raised" /\ err.from = "_save_workout"
Ids(pairs) == {pairs[i].record.id : i \in 1..Len(pairs)}
Srcs(pairs) == {pairs[i].src : i \in 1..Len(pairs)}

(***************************************************************************)
(* C1.  A list of N sessions, K of them malformed and the others           *)
(* well-formed: normalize returns N-K pairs and no exception leaves it.     *)
(* Fails: an entry that is not an object makes the except clause itself     *)
(* raise (session.get on a str), and that exception leaves normalize.       *)
(***************************************************************************)
C1_PartialFailure ==
    (/\ InCall /\ KnownSource
     /\ call.payload.k = "list"
     /\ \A i \in 1..Len(SessionsOfCall) :
            WellFormed(SessionsOfCall[i]) \/ Malformed(SessionsOfCall[i]))
    => /\ ~NormalizeRaised
       /\ Len(normalized_data) =
            Len(SessionsOfCall)
            - Cardinality({i \in 1..Len(SessionsOfCall) : Malformed(SessionsOfCall[i])})

(***************************************************************************)
(* C2.  exerciseType 79, 8, 73, 77 give the types running, cycling,         *)
(* swimming, walking.  Fails: the table holds 79 twice (the later SOCCER    *)
(* wins), 73 as RUGBY and 77 as SAILING.                                    *)
(***************************************************************************)
C2_TypeMapping ==
    \A i \in 1..Len(normalized_data) :
        LET et == SessionsOfCall[normalized_data[i].src].exerciseType
            type == normalized_data[i].record.type
        IN  /\ et = J("int", 79) => type = "RUNNING"
            /\ et = J("int", 8) => type = "CYCLING"
            /\ et = J("int", 73) => type = "SWIMMING"
            /\ et = J("int", 77) => type = "WALKING"

(***************************************************************************)
(* C3.  An unknown source_type ends the call with an error that names it;   *)
(* normalize is not invoked and no pair is forwarded.                       *)
(***************************************************************************)
C3_UnknownSource ==
    (InCall /\ ~KnownSource)
    => /\ pc = "raised"
       /\ err = [type |-> "ValueError", arg |-> call.source_type, from |-> "process_payload"]
       /\ normalize_calls = 0
       /\ forwarded = <<>>

\* an unknown source type with a payload that would yield two pairs
C3_Witness ==
    /\ pc = "raised" /\ ~KnownSource
    /\ call.payload.k = "list"
    /\ Len(SessionsOfCall) = 2
    /\ \A i \in 1..2 : WellFormed(SessionsOfCall[i])

(***************************************************************************)
(* C4.  A payload that is neither an object nor an array: normalize raises, *)
(* the call ends with that error, nothing is forwarded.                     *)
(***************************************************************************)
C4_PayloadShape ==
    (InCall /\ KnownSource /\ call.payload.k \notin {"dict", "list"})
    => /\ pc = "raised"
       /\ err = [type |-> "ValueError", arg |-> call.payload.k, from |-> "normalize"]
       /\ normalize_calls = 1
       /\ forwarded = <<>>

C4_Witness ==
    /\ NormalizeRaised /\ KnownSource
    /\ call.payload.k = "str"

(***************************************************************************)
(* C5.  Well-formed sessions give one pair each (one for a single object,   *)
(* N for an array of N); the ids of the pairs differ from each other and    *)
(* from every id an earlier call returned; a detail carries its record's id.*)
(***************************************************************************)
C5_OnePairEach ==
    /\ \A i, j \in 1..Len(normalized_data) :
          i # j => normalized_data[i].record.id # normalized_data[j].record.id
    /\ Ids(normalized_data) \cap issued = {}
    /\ \A i \in 1..Len(normalized_data) :
          normalized_data[i].detail.record_id = normalized_data[i].record.id
    /\ (/\ InCall /\ KnownSource
        /\ call.payload.k \in {"dict", "list"}
        /\ \A i \in 1..Len(SessionsOfCall) : WellFormed(SessionsOfCall[i]))
       => /\ ~NormalizeRaised
          /\ Len(normalized_data) = Len(SessionsOfCall)
          /\ call.payload.k = "dict" => Len(normalized_data) = 1

\* two well-formed sessions in a call that follows one which returned ids
C5_Witness ==
    /\ pc = "saving"
    /\ call.payload.k = "list"
    /\ Len(SessionsOfCall) = 2
    /\ \A i \in 1..2 : WellFormed(SessionsOfCall[i])
    /\ Len(normalized_data) = 2
    /\ issued # {}

(***************************************************************************)
(* C6.  A record is unset as normalize returned it, and carries the call's  *)
(* user_id when it is handed to _save_workout.                              *)
(***************************************************************************)
C6_UserStamp ==
    /\ \A i \in 1..Len(normalized_data) :
          i > Len(forwarded) => normalized_data[i].record.user_id = UNSET
    /\ \A i \in 1..Len(forwarded) :
          forwarded[i].record.user_id = call.user_id

\* one pair forwarded, another not yet reached by the loop
C6_Witness ==
    /\ pc = "saving"
    /\ Len(forwarded) = 1
    /\ Len(normalized_data) = 2
    /\ call.user_id = "user-2"

(***************************************************************************)
(* C7.  The pairs handed over are the pairs normalize returned, each once,  *)
(* in the order of their sessions; all of them when the call returns; and   *)
(* normalize has finished before the first is handed over.                  *)
(***************************************************************************)
C7_EachPairOnceInOrder ==
    /\ Len(forwarded) <= Len(normalized_data)
    /\ \A i \in 1..Len(forwarded) :
          /\ forwarded[i].record.id = normalized_data[i].record.id
          /\ forwarded[i].detail = normalized_data[i].detail
          /\ forwarded[i].src = normalized_data[i].src
    /\ \A i, j \in 1..Len(forwarded) : i < j => forwarded[i].src < forwarded[j].src
    /\ pc = "returned" =>
          /\ Len(forwarded) = Len(normalized_data)
          /\ Srcs(forwarded) = {i \in 1..Len(SessionsOfCall) :
                                   _parse_exercise_session(SessionsOfCall[i], call.now, 1).exc = ""}
    /\ forwarded # <<>> => normalize_calls = 1

\* a returned call that handed over two pairs
C7_Witness ==
    /\ pc = "returned"
    /\ Len(forwarded) = 2

(***************************************************************************)
(* C8.  When _save_workout fails on the i-th pair the call ends with that   *)
(* very error: the i-th pair is the last one forwarded and it was forwarded *)
(* once.                                                                    *)
(***************************************************************************)
C8_SaveFailurePropagates ==
    /\ Len(save_outcomes) = Len(forwarded)
    /\ \A i \in 1..Len(save_outcomes) :
          save_outcomes[i] # "ok" =>
             /\ i = Len(save_outcomes)
             /\ pc = "raised"
             /\ err = [type |-> save_outcomes[i], arg |-> "", from |-> "_save_workout"]
    /\ \A i, j \in 1..Len(forwarded) : i # j => forwarded[i].src # forwarded[j].src

\* the first save failed while a second pair was waiting
C8_Witness ==
    /\ SaveRaised
    /\ Len(forwarded) = 1
    /\ Len(normalized_data) = 2

(***************************************************************************)
(* C9.  A session whose start or end is missing, empty or unparsable, and   *)
(* which is otherwise well-formed, still gives a pair, with the clock's     *)
(* time in place of the bad timestamp.  Fails when the other timestamp      *)
(* carries an offset: datetime.now() is naive, the subtraction raises       *)
(* TypeError and the session is skipped.                                    *)
(***************************************************************************)
C9_TimestampFallback ==
    (/\ InCall /\ KnownSource
     /\ call.payload.k \in {"dict", "list"}
     /\ \A i \in 1..Len(SessionsOfCall) : SessionsOfCall[i].k = "dict")
    => \A i \in 1..Len(SessionsOfCall) :
          LET s == SessionsOfCall[i] IN
          (/\ WellFormedRest(s)
           /\ BadTimestamp(s.startTime) \/ BadTimestamp(s.endTime)
           /\ BadTimestamp(s.startTime) \/ GoodTimestamp(s.startTime)
           /\ BadTimestamp(s.endTime) \/ GoodTimestamp(s.endTime))
          => \E j \in 1..Len(normalized_data) :
                /\ normalized_data[j].src = i
                /\ BadTimestamp(s.startTime) =>
                      normalized_data[j].record.start_datetime.t = call.now
                /\ BadTimestamp(s.endTime) =>
                      normalized_data[j].record.end_datetime.t = call.now

(***************************************************************************)
(* C10.  The extraction functions never raise, whatever the arrays hold,    *)
(* and give "absent" for an empty or missing array.  Fails: an entry that   *)
(* is not an object, or whose value is null or not a number, raises         *)
(* AttributeError, InvalidOperation or TypeError.                           *)
(***************************************************************************)
C10_ExtractionNeverFails ==
    agg.fn # "" =>
       /\ agg.out.exc = ""
       /\ (agg.arg.k = "missing" \/ (agg.arg.k = "list" /\ agg.arg.items = <<>>))
          => agg.out.val = IF agg.fn = "_extract_heart_rate" THEN NoHeartRate ELSE PyNone

(***************************************************************************)
(* Vocabulary of the aggregation properties: what a well-formed array       *)
(* holds.  An entry without the field holds no value and adds nothing.      *)
(***************************************************************************)
Additive == {"_extract_distance", "_extract_calories", "_extract_elevation"}
EmptyOrMissing(a) == a.k = "missing" \/ (a.k = "list" /\ a.items = <<>>)
HasValue(e) == e.inner = "dict" /\ e.val.k = "int"
ValuesOf(a) == [i \in 1..Len(a.items) |-> IF HasValue(a.items[i]) THEN a.items[i].val.v ELSE 0]
PositiveValuesOf(a) == SelectSeq(ValuesOf(a), LAMBDA x : x > 0)
Absent(out) == out.exc = "" /\ out.val = PyNone
\* the readings of all samples of all records, in order
ReadingsOf(a) ==
    Concat([i \in 1..Len(a.items) |->
               [j \in 1..Len(a.items[i].samples.items) |->
                   IF a.items[i].samples.items[j].bpm.k = "int"
                   THEN a.items[i].samples.items[j].bpm.v ELSE 0]])
PositiveReadingsOf(a) == SelectSeq(ReadingsOf(a), LAMBDA x : x > 0)
NoStatistics(out) == out.exc = "" /\ out.val.present = FALSE

(***************************************************************************)
(* C11 as stated.  For distance, calories and elevation gain an empty or    *)
(* missing array gives "absent" and an array whose values sum to exactly    *)
(* zero gives "absent", never 0; heart rate without samples gives "absent"  *)
(* for min, max and avg.  Fails for elevation gain: only the positive       *)
(* values are summed, so the values 2 and -2 give a gain of 2.              *)
(***************************************************************************)
C11_ZeroSumAbsent ==
    /\ (agg.fn \in Additive /\ EmptyOrMissing(agg.arg)) => Absent(agg.out)
    /\ (agg.fn \in Additive /\ WellFormedArray(agg.arg) /\ SeqSum(ValuesOf(agg.arg)) = 0)
          => Absent(agg.out)
    /\ (agg.fn = "_extract_heart_rate" /\ WellFormedHrArray(agg.arg)
          /\ ReadingsOf(agg.arg) = <<>>) => NoStatistics(agg.out)

(***************************************************************************)
(* C11 amended.  As above for distance and calories; for elevation gain the *)
(* array gives "absent" when its positive values sum to zero, that is when  *)
(* none of its values is positive.  No additive result is ever 0.           *)
(***************************************************************************)
C11_ZeroSumAbsentAmended ==
    /\ (agg.fn \in Additive /\ EmptyOrMissing(agg.arg)) => Absent(agg.out)
    /\ (agg.fn \in {"_extract_distance", "_extract_calories"}
          /\ WellFormedArray(agg.arg) /\ SeqSum(ValuesOf(agg.arg)) = 0) => Absent(agg.out)
    /\ (agg.fn = "_extract_elevation"
          /\ WellFormedArray(agg.arg) /\ SeqSum(PositiveValuesOf(agg.arg)) = 0)
          => Absent(agg.out)
    /\ (agg.fn \in Additive /\ agg.out.exc = "") => agg.out.val # Dec(0)
    /\ (agg.fn = "_extract_heart_rate" /\ WellFormedHrArray(agg.arg)
          /\ ReadingsOf(agg.arg) = <<>>) => NoStatistics(agg.out)

\* a distance array whose two values are not zero and cancel out
C11_Witness ==
    /\ agg.fn = "_extract_distance"
    /\ WellFormedArray(agg.arg)
    /\ Len(agg.arg.items) = 2
    /\ ValuesOf(agg.arg)[1] # 0
    /\ SeqSum(ValuesOf(agg.arg)) = 0
    /\ Absent(agg.out)

(***************************************************************************)
(* C12.  Heart rate over well-formed records: the statistics are those of   *)
(* the readings that are > 0 -- their least, their greatest, their sum over *)
(* their number; they are absent exactly when no reading is > 0; min, max   *)
(* and avg are set together; and min <= avg <= max.                         *)
(***************************************************************************)
C12_HeartRateStatistics ==
    (agg.fn = "_extract_heart_rate" /\ WellFormedHrArray(agg.arg)) =>
        LET kept == PositiveReadingsOf(agg.arg)
            out == agg.out.val
            m == _build_metrics(agg.out.val, PyNone, PyNone, PyNone)
        IN  /\ agg.out.exc = ""
            /\ out.present <=> kept # <<>>
            /\ m.heart_rate_min.k = m.heart_rate_max.k
            /\ m.heart_rate_max.k = m.heart_rate_avg.k
            /\ m.heart_rate_min.k = IF kept # <<>> THEN "dec" ELSE "none"
            /\ out.present =>
                  /\ \E i \in 1..Len(kept) : kept[i] = out.min
                  /\ \E i \in 1..Len(kept) : kept[i] = out.max
                  /\ \A i \in 1..Len(kept) : out.min <= kept[i] /\ kept[i] <= out.max
                  /\ out.n = Len(kept)
                  /\ out.sum = SeqSum(kept)
                  /\ m.heart_rate_avg.num = out.sum /\ m.heart_rate_avg.den = out.n
                  /\ out.min * out.n <= out.sum
                  /\ out.sum <= out.max * out.n
                  /\ out.min > 0

\* two records: a reading that is discarded and one that is kept
C12_Witness ==
    /\ agg.fn = "_extract_heart_rate"
    /\ WellFormedHrArray(agg.arg)
    /\ Len(ReadingsOf(agg.arg)) = 2
    /\ Len(PositiveReadingsOf(agg.arg)) = 1
    /\ agg.out.exc = ""
    /\ agg.out.val.present

(***************************************************************************)
(* Vocabulary of the handler properties.                                    *)
(***************************************************************************)
\* the pairs a handler call on one session or workout returned
EmittedBy(fn) == IF agg.fn = fn /\ agg.out.exc = "" THEN agg.out.workouts ELSE <<>>
AllPositive(a) ==
    /\ a.k = "list" /\ a.items # <<>>
    /\ \A i \in 1..Len(a.items) : HasValue(a.items[i]) /\ a.items[i].val.v > 0
SomePositive(a) ==
    /\ a.k = "list"
    /\ \E i \in 1..Len(a.items) : HasValue(a.items[i]) /\ a.items[i].val.v > 0
\* an additive metric m against the array a it is computed from
SuppliedOrAbsent(m, a) ==
    /\ EmptyOrMissing(a) => m = PyNone
    /\ m # PyNone => SomePositive(a)
    /\ AllPositive(a) => m = Dec(SeqSum(ValuesOf(a)))
    /\ m # Dec(0)
\* a HealthKit metric m against the metadata entry it is computed from
EntryOrAbsent(m, entry) ==
    /\ entry.k \in {"missing", "empty"} <=> m = NoRat
    /\ entry.k = "num" => m = Rat(entry.v, 10)

(***************************************************************************)
(* C13.  In an emitted detail an optional metric is there only if the       *)
(* session held data for it and is there whenever the session held positive *)
(* values for it; a missing or empty array leaves it absent, so a session   *)
(* with timestamps only has none; no metric is 0 in place of missing data;  *)
(* Health Connect never sets elevation_loss, temperature or humidity; a     *)
(* HealthKit metric is there exactly when its attribute or metadata entry   *)
(* has a value.                                                             *)
(***************************************************************************)
C13_OptionalMetrics ==
    /\ \A i \in 1..Len(EmittedBy("normalize")) :
          LET m == EmittedBy("normalize")[i].detail.metrics
              session == agg.arg
          IN  /\ SuppliedOrAbsent(m.distance_total, session.distanceRecords)
              /\ SuppliedOrAbsent(m.calories_total, session.caloriesRecords)
              /\ SuppliedOrAbsent(m.elevation_gain, session.elevationRecords)
              /\ m.heart_rate_min.k = m.heart_rate_max.k
              /\ m.heart_rate_max.k = m.heart_rate_avg.k
              /\ m.heart_rate_min # PyNone <=> PositiveReadingsOf(session.heartRateRecords) # <<>>
              /\ m.heart_rate_min # Dec(0) /\ m.heart_rate_max # Dec(0)
              /\ m.heart_rate_avg.k = "dec" => m.heart_rate_avg.num > 0
              /\ m.elevation_loss = PyNone /\ m.temperature = PyNone /\ m.humidity = PyNone
    /\ \A i \in 1..Len(EmittedBy("HealthKitHandler.normalize")) :
          LET m == EmittedBy("HealthKitHandler.normalize")[i].detail.metrics
              workout == agg.arg
          IN  /\ AttrTruthy(workout.totalDistance) <=> m.distance_total # NoRat
              /\ AttrTruthy(workout.totalEnergyBurned) <=> m.calories_total # NoRat
              /\ EntryOrAbsent(m.heart_rate_avg, workout.metadata["HKAverageHeartRate"])
              /\ EntryOrAbsent(m.heart_rate_max, workout.metadata["HKMaximumHeartRate"])
              /\ EntryOrAbsent(m.heart_rate_min, workout.metadata["HKMinimumHeartRate"])
              /\ EntryOrAbsent(m.elevation_gain, workout.metadata["HKElevationAscended"])
              /\ EntryOrAbsent(m.elevation_loss, workout.metadata["HKElevationDescended"])
              /\ EntryOrAbsent(m.temperature, workout.metadata["HKWeatherTemperature"])
              /\ EntryOrAbsent(m.humidity, workout.metadata["HKWeatherHumidity"])

\* a session with a distance and heart rate, without calories, and with
\* elevation values that are all zero
C13_Witness ==
    /\ Len(EmittedBy("normalize")) = 1
    /\ AllPositive(agg.arg.distanceRecords)
    /\ EmptyOrMissing(agg.arg.caloriesRecords)
    /\ agg.arg.elevationRecords = Arr(<<Entry(J("int", 0))>>)
    /\ PositiveReadingsOf(agg.arg.heartRateRecords) # <<>>
    /\ agg.out.workouts[1].detail.metrics.distance_total = Dec(3)
    /\ agg.out.workouts[1].detail.metrics.calories_total = PyNone

(***************************************************************************)
(* C14.  _parse_duration, _parse_distance and _parse_energy give "no value" *)
(* (0 seconds for the duration) for a value that is absent, empty or not a  *)
(* number, and do not raise; a workout with such an attribute is emitted    *)
(* without that metric.  Fails: Decimal() raises InvalidOperation on a      *)
(* string that is not a number, the except clause names ValueError and      *)
(* TypeError only, and the workout is lost.                                 *)
(***************************************************************************)
NotANumber(value) == value.k \in {"missing", "empty", "garbage"}
ParsableDate(d) == d.k \in {"missing", "empty", "hk_offset", "hk_naive", "iso_naive", "iso_offset"}

C14_ConversionsNeverRaise ==
    /\ (agg.fn = "_parse_duration" /\ NotANumber(agg.arg.duration))
          => agg.out = Ok(0)
    /\ (agg.fn = "_parse_distance" /\ NotANumber(agg.arg.totalDistance))
          => agg.out = Ok(NoRat)
    /\ (agg.fn = "_parse_energy" /\ NotANumber(agg.arg.totalEnergyBurned))
          => agg.out = Ok(NoRat)
    /\ (/\ agg.fn = "HealthKitHandler.normalize"
        /\ ParsableDate(agg.arg.startDate) /\ ParsableDate(agg.arg.endDate)
        /\ agg.arg.metadata = NoEntries)
       => /\ Len(EmittedBy("HealthKitHandler.normalize")) = 1
          /\ NotANumber(agg.arg.totalDistance)
                => agg.out.workouts[1].detail.metrics.distance_total = NoRat
          /\ NotANumber(agg.arg.totalEnergyBurned)
                => agg.out.workouts[1].detail.metrics.calories_total = NoRat

(***************************************************************************)
(* C17.  The lookups by id and by name return OTHER, and do not raise, for  *)
(* every integer, string or null that is not a code or a name of the        *)
(* mapping table; a session without exerciseType is emitted with the type   *)
(* OTHER; and the three dicts are as the import of the module built them.   *)
(***************************************************************************)
C17_LookupsTotal ==
    /\ (agg.fn = "get_unified_workout_type_by_id" /\ agg.arg.k \in {"int", "str", "null"})
          => /\ agg.out.exc = ""
             /\ (agg.arg.k # "int" \/ agg.arg.v \notin TableCodes) => agg.out.val = "OTHER"
    /\ (agg.fn = "get_unified_workout_type_by_name" /\ agg.arg.k \in {"int", "str", "null"})
          => /\ agg.out.exc = ""
             /\ (agg.arg.k # "str" \/ agg.arg.name \notin TableNames) => agg.out.val = "OTHER"
    /\ (agg.fn = "normalize" /\ agg.arg.exerciseType = Missing)
          => \A i \in 1..Len(EmittedBy("normalize")) :
                 agg.out.workouts[i].record.type = "OTHER"
    /\ tables = module_tables

\* the lookup of a code the table does not hold has returned
C17_Witness ==
    /\ agg.fn = "get_unified_workout_type_by_id"
    /\ agg.arg = J("int", 999)
    /\ agg.out = Ok("OTHER")

(***************************************************************************)
(* C18.  Every record a handler emits has a start and an end that carry a   *)
(* timezone.  Fails: a timestamp string without offset is parsed to a naive *)
(* datetime, and datetime.now(), which stands in for an empty or missing    *)
(* one, is naive too.                                                       *)
(***************************************************************************)
C18_TimezoneAware ==
    \A fn \in {"normalize", "HealthKitHandler.normalize"} :
        \A i \in 1..Len(EmittedBy(fn)) :
            /\ EmittedBy(fn)[i].record.start_datetime.aware
            /\ EmittedBy(fn)[i].record.end_datetime.aware

(***************************************************************************)
(* C15.  Each of the pull operations get_workouts, get_workouts_from_api,   *)
(* get_workout_detail_from_api and load_data ends with an error; none       *)
(* returns.  Fails: get_workouts and get_workouts_from_api return [].       *)
(***************************************************************************)
PullOperations ==
    {"get_workouts", "get_workouts_from_api", "get_workout_detail_from_api", "load_data"}

C15_PullOperationsFail ==
    \A i \in 1..Len(invocations) :
        invocations[i].op \in PullOperations => invocations[i].out.exc # ""

(***************************************************************************)
(* C16.  get_provider returns the strategy of the name for apple, garmin,   *)
(* google_health, suunto and polar, and for every other name raises an      *)
(* error that carries the name; this is so at every position of a sequence  *)
(* of calls, whatever the calls before it were.                             *)
(***************************************************************************)
StrategyOf ==
    [apple |-> "AppleStrategy", garmin |-> "GarminStrategy",
     google_health |-> "GoogleHealthStrategy", suunto |-> "SuuntoStrategy",
     polar |-> "PolarStrategy"]

C16_ClosedProviderSet ==
    \A i \in 1..Len(invocations) :
        invocations[i].op = "get_provider" =>
            LET name == invocations[i].args[1]
                out == invocations[i].out
            IN  IF name \in DOMAIN StrategyOf
                THEN out = Returns(StrategyOf[name])
                ELSE out.exc = "ValueError" /\ out.arg = name

\* an unknown name is refused after the same factory served a known one
C16_Witness ==
    /\ Len(invocations) = 2
    /\ invocations[1].op = "get_provider" /\ invocations[1].args = <<"google_health">>
    /\ invocations[1].out.exc = ""
    /\ invocations[2].op = "get_provider" /\ invocations[2].args = <<"fitbit">>
    /\ invocations[2].out.exc = "ValueError"

(***************************************************************************)
(* C19.  The count the endpoint reports is the number of sessions that were *)
(* normalized and saved: N - K for an array of N sessions of which K were   *)
(* skipped.  Fails: the count is len(data), or 1 for an object, whatever    *)
(* normalize returned.                                                      *)
(***************************************************************************)
Answered(status) == pc = "responded" /\ response.status = status

C20_UnsupportedStructureIs400 ==
    (pc = "responded" /\ call.payload.k \in {"str", "int", "null"}) =>
        /\ response.status = HTTP_400_BAD_REQUEST
        /\ forwarded = <<>>

(***************************************************************************)
(* C22 as stated.  For distance, calories and elevation gain over a         *)
(* non-empty array of well-formed records the result is the sum of all the  *)
(* values; it is absent only when that sum is exactly zero, and a sum that  *)
(* is not zero is reported whatever its sign.  Fails: a negative sum gives  *)
(* "absent", and elevation gain leaves the values that are not positive out *)
(* of the sum.                                                              *)
(***************************************************************************)
NonEmptyRecords(a) == a.k = "list" /\ a.items # <<>> /\ WellFormedArray(a)

C22_SumOfAllValues ==
    (agg.fn \in Additive /\ NonEmptyRecords(agg.arg)) =>
        /\ agg.out.exc = ""
        /\ agg.out.val = IF SeqSum(ValuesOf(agg.arg)) = 0 THEN PyNone
                         ELSE Dec(SeqSum(ValuesOf(agg.arg)))

(***************************************************************************)
(* C22 amended.  Distance and calories are the sum of all the values when   *)
(* that sum is greater than zero and absent when it is zero or negative;    *)
(* elevation gain is the sum of the values that are greater than zero and   *)
(* absent when no value is.                                                 *)
(***************************************************************************)
C22_PositiveSumOrAbsent ==
    (agg.fn \in Additive /\ NonEmptyRecords(agg.arg)) =>
        LET total == IF agg.fn = "_extract_elevation"
                     THEN SeqSum(PositiveValuesOf(agg.arg))
                     ELSE SeqSum(ValuesOf(agg.arg))
        IN  /\ agg.out.exc = ""
            /\ agg.out.val = IF total > 0 THEN Dec(total) ELSE PyNone

\* elevation records with a positive and a negative value: the gain is the
\* positive one, not their sum
C22_Witness ==
    /\ agg.fn = "_extract_elevation"
    /\ NonEmptyRecords(agg.arg)
    /\ Len(agg.arg.items) = 2
    /\ ValuesOf(agg.arg)[1] > 0
    /\ ValuesOf(agg.arg)[2] < 0
    /\ agg.out = Ok(Dec(ValuesOf(agg.arg)[1]))

(***************************************************************************)
(* C24.  Every record HealthConnectHandler.normalize emits has a duration   *)
(* that is its end minus its start, in seconds; and a session that is       *)
(* well-formed, with timestamps that both carry an offset or both carry     *)
(* none, is emitted with the difference of the two instants whatever their  *)
(* order: zero when they are equal, negative when the end is the earlier.   *)
(***************************************************************************)
C24_DurationIsDelta ==
    /\ \A i \in 1..Len(EmittedBy("normalize")) :
          agg.out.workouts[i].record.duration_seconds =
             agg.out.workouts[i].record.end_datetime.t
             - agg.out.workouts[i].record.start_datetime.t
    /\ (agg.fn = "normalize" /\ WellFormed(agg.arg)) =>
          /\ agg.out.exc = ""
          /\ Len(agg.out.workouts) = 1
          /\ agg.out.workouts[1].record.start_datetime.t = agg.arg.startTime.v
          /\ agg.out.workouts[1].record.end_datetime.t = agg.arg.endTime.v
          /\ agg.out.workouts[1].record.duration_seconds
                = agg.arg.endTime.v - agg.arg.startTime.v

\* a session that ends a minute before it starts has been emitted
C24_Witness ==
    /\ agg.fn = "normalize"
    /\ WellFormed(agg.arg)
    /\ agg.arg.endTime.v < agg.arg.startTime.v
    /\ Len(EmittedBy("normalize")) = 1
    /\ agg.out.workouts[1].record.duration_seconds < 0

\* a session that ends at the instant it starts has been emitted
C24_WitnessZero ==
    /\ agg.fn = "normalize"
    /\ WellFormed(agg.arg)
    /\ agg.arg.endTime = agg.arg.startTime
    /\ Len(EmittedBy("normalize")) = 1
    /\ agg.out.workouts[1].record.duration_seconds = 0

(***************************************************************************)
(* C23.  Every workout HealthKitHandler.normalize emits has a duration that *)
(* is the duration attribute in whole seconds when the attribute holds a    *)
(* number, and the end minus the start otherwise.  Fails: without a number  *)
(* in the attribute _parse_duration returns 0, and nothing computes the     *)
(* difference of the two dates.                                             *)
(***************************************************************************)
SecondsPer(unit) ==
    CASE unit = "hr" -> 3600
      [] unit = "s" -> 1
      [] OTHER -> 60

C23_DurationOrDelta ==
    \A i \in 1..Len(EmittedBy("HealthKitHandler.normalize")) :
        agg.out.workouts[i].record.duration_seconds =
           IF agg.arg.duration.k = "num"
           THEN int_of(agg.arg.duration.v * SecondsPer(agg.arg.durationUnit), 10)
           ELSE agg.out.workouts[i].record.end_datetime.t
                - agg.out.workouts[i].record.start_datetime.t

(***************************************************************************)
(* C25.  For every code of the mapping table the lookup by id returns the   *)
(* type of the last triple that has the code, and the lookup by the name    *)
(* that get_exercise_name gives for the code returns that same type.        *)
(***************************************************************************)
IsLastWithCode(i, c) ==
    /\ i \in 1..Len(GOOGLE_HEALTH_WORKOUT_TYPE_MAPPINGS)
    /\ GOOGLE_HEALTH_WORKOUT_TYPE_MAPPINGS[i][1] = c
    /\ \A j \in (i + 1)..Len(GOOGLE_HEALTH_WORKOUT_TYPE_MAPPINGS) :
          GOOGLE_HEALTH_WORKOUT_TYPE_MAPPINGS[j][1] # c
CodeOfTable(arg) == arg.k = "int" /\ arg.v \in TableCodes

C25_WitnessSharedName ==
    /\ agg.fn = "get_exercise_name"
    /\ agg.arg = J("int", 48)
    /\ Cardinality({i \in 1..Len(GOOGLE_HEALTH_WORKOUT_TYPE_MAPPINGS) :
                       GOOGLE_HEALTH_WORKOUT_TYPE_MAPPINGS[i][2] = agg.out.val}) = 2

(***************************************************************************)
(* C21.  Callers that run normalize side by side on one handler: no step    *)
(* writes to the handler instance or to the lookup dicts, and a call that   *)
(* has ended has raised what it raises, and returned the pairs it returns,  *)
(* when it runs alone on the same data at the same clock reading -- the     *)
(* ids apart, which are fresh: no id occurs twice, in one result or in two. *)
(***************************************************************************)
WithoutIds(pairs) ==
    [i \in 1..Len(pairs) |->
        [record |-> [pairs[i].record EXCEPT !.id = 0],
         detail |-> [pairs[i].detail EXCEPT !.record_id = 0],
         src |-> pairs[i].src]]
Ended(c) == inflight[c].pc \in {"returned", "raised"}
Alone(c) == normalize(inflight[c].data, inflight[c].now, 1)

C21_ConcurrentCallsIndependent ==
    /\ tables = module_tables
    /\ handler_state = <<>>
    /\ \A c \in Callers :
          Ended(c) =>
             /\ inflight[c].exc = Alone(c).exc
             /\ WithoutIds(inflight[c].workouts) = WithoutIds(Alone(c).workouts)
             /\ Cardinality(Ids(inflight[c].workouts)) = Len(inflight[c].workouts)
             /\ \A i \in 1..Len(inflight[c].workouts) :
                   inflight[c].workouts[i].detail.record_id = inflight[c].workouts[i].record.id
    /\ \A c \in Callers, d \in Callers :
          c # d => Ids(inflight[c].workouts) \cap Ids(inflight[d].workouts) = {}

\* two calls have returned whose iterations alternated: the ids of the one
\* enclose the id of the other
C21_Witness ==
    /\ inflight["a"].pc = "returned" /\ inflight["b"].pc = "returned"
    /\ Ids(inflight["a"].workouts) = {1, 3}
    /\ Ids(inflight["b"].workouts) = {2}
====
